---- MODULE Spec2Model ----
(***************************************************************************)
(* Model of the role-aware authorization-code handoff (auth-service) and   *)
(* of the resource-side bearer-token validator (jwt middleware /           *)
(* admin-backend) of the openid-connect-demo repository.                   *)
(*                                                                         *)
(* The specifications of this module:                                      *)
(*   Spec     the provider + OIDC client service: GET /client/auth,        *)
(*            /interaction/:uid, GET /client/callback, the in-memory       *)
(*            pkceStorage and the authority's grants, sessions and codes;  *)
(*   SpecTTL  GET /client/auth and GET /client/callback under a running    *)
(*            clock, with flows that are never brought to the authority;   *)
(*   SpecJWT  createJWTMiddleware: getClient, validateJWT, the usedTokens  *)
(*            replay guard with its timers and its periodic sweep.         *)
(*   SpecGuard  the replay guard alone under a longer clock, with the       *)
(*            fairness of the clock, the sweep and the timers;             *)
(*   SpecHandoff  the client service of vue-auth-client (setup.js): /auth,  *)
(*            /callback, requireAuth, /api/token, /logout and its          *)
(*            tokenStorage, under a running clock;                         *)
(*   SpecLookup   the keyed lookups of both services, from states with a   *)
(*            pending authorization and with a handed-off session;         *)
(*   SpecCollide  GET /client/auth with random values that may repeat;     *)
(*   SpecQuery    GET /client/callback with further query parameters;       *)
(*   SpecInteraction  /interaction/:uid with interactions that expire and  *)
(*            requests without a live interaction;                         *)
(*   SpecPlugin   one page load of vue-auth-client: createAuthPlugin, the  *)
(*            config manager, the response interceptor; SpecPluginLive     *)
(*            adds the fairness of responses, watchers and timers.         *)
(* Time is a bounded integer clock `now`.                                  *)
(***************************************************************************)
EXTENDS Integers, FiniteSets, Sequences, TLC

\* ------------------------------------------------------------------ bounds
MaxFlows     == 2   \* number of GET /client/auth calls (states, nonces, verifiers)
MaxCallbacks == 2   \* number of GET /client/callback requests
MaxTime      == 3   \* last value of the clock
MaxGuardTime == 6   \* last value of the clock of SpecGuard
PKCE_TTL     == 1   \* the correlation TTL the specification asks for (no such value in the code)
MaxRequests  == 2   \* number of requests passing through validateJWT
MaxTimers    == 3   \* number of setTimeout calls of scheduleTokenDeletion
MaxProtected == 1   \* number of requests passing through requireAuth
SESSION_TTL  == 1   \* the session handoff TTL the specification asks for (no such value in the code)
IdTokenLifetime == 2  \* validity of an ID token in clock units (the authority's setting)

\* ------------------------------------------------------ static configuration
None == "none"
NULL == "null"

\* index.js:9-13 (config.js:5-9)
users ==
  { [id |-> "user1", name |-> "User One",   email |-> "user1@example.com", password |-> "pass1"],
    [id |-> "user2", name |-> "User Two",   email |-> "user2@example.com", password |-> "pass2"],
    [id |-> "admin", name |-> "Admin User", email |-> "admin@example.com", password |-> "admin"] }

UserIds == { u.id : u \in users }

\* The repository carries the provider's tables twice: inline in the provider
\* (index.js:16-61) and as the exported configuration (config.js:12-52).
Tables == {"index.js", "config.js"}

\* index.js:16-35 and config.js:12-31
applications(table) ==
  IF table = "index.js"
  THEN { [client_id |-> "demo-client", redirect_url |-> "http://localhost:3002/"],
         [client_id |-> "app2",        redirect_url |-> "http://localhost:3001/"],
         [client_id |-> "admin-ui",    redirect_url |-> "http://localhost:3002/"] }
  ELSE { [client_id |-> "demo-client",    redirect_url |-> "http://localhost:3002/"],
         [client_id |-> "filebump-admin", redirect_url |-> "http://localhost:33033/"],
         [client_id |-> "admin-ui",       redirect_url |-> "http://localhost:3002/"] }

\* index.js:45-61 and config.js:35-52 ; NULL stands for a missing key (undefined)
userAppRoles(table, userId, clientId) ==
  CASE userId = "user1" /\ clientId = "demo-client" -> "user"
    [] userId = "user1" /\ clientId = "app2"        -> "viewer"
    [] userId = "user1" /\ clientId = "admin-ui"    -> "user"
    [] userId = "user2" /\ clientId = "demo-client" -> "admin"
    [] userId = "user2" /\ clientId = "app2"        -> "user"
    [] userId = "user2" /\ clientId = "admin-ui"    -> "admin"
    [] userId = "admin" /\ clientId = "demo-client" -> "admin"
    [] userId = "admin" /\ clientId = "app2"        -> "admin"
    [] userId = "admin" /\ clientId = "admin-ui"    -> "admin"
    [] userId = "admin" /\ clientId = "filebump-admin" /\ table = "config.js" -> "admin"
    [] OTHER -> NULL

clientRedirectUrlsNone(table, clientId) == NULL

\* index.js:38-41 (config.js:55-61)
clientRedirectUrls(table, clientId) ==
  IF \E a \in applications(table) : a.client_id = clientId
  THEN (CHOOSE a \in applications(table) : a.client_id = clientId).redirect_url
  ELSE NULL

\* generators.codeChallenge (index.js:374): S256, a one-way injective transform
codeChallenge(codeVerifier) == 2 * codeVerifier + 1

\* ------------------------------------------------------------ map helpers
Put(f, k, v) == [x \in (DOMAIN f) \cup {k} |-> IF x = k THEN v ELSE f[x]]
Del(f, k)    == [x \in (DOMAIN f) \ {k} |-> f[x]]
Empty        == [x \in {} |-> 0]

VARIABLES
  now,            \* Date.now(), in clock units
  table,          \* which of the repository's two provider tables is deployed
  \* ---- provider + OIDC client service (auth-service/index.js)
  pkceStorage,    \* index.js:342   state -> {codeVerifier, nonce, redirectUrl, clientId}
  tokenStorage,   \* index.js:346   sessionId -> tokenSet
  flows,          \* the redirects answered by GET /client/auth: state -> authorization parameters
  registeredAt,   \* state -> clock value at which GET /client/auth stored the entry
  usedRandom,     \* values generators.random()/codeVerifier() have returned so far
  session,        \* the browser's session at the authority: {accountId, grantId}
  interactions,   \* authority: uid -> pending interaction (details.prompt, details.params)
  grants,         \* authority grant storage: grantId -> Grant
  codes,          \* authority: authorization codes
  cb,             \* the GET /client/callback requests: slot -> request record
  \* ---- createJWTMiddleware (config.js:146-475, admin-backend/index.js:20-336)
  mwClientId,     \* config.js:149   the client id the middleware was created with
  issuer,         \* config.js:153   discovered issuer, None until discovery succeeded
  jwks,           \* config.js:155   remote key set, None until the JWKS endpoint answered
  usedTokens,     \* config.js:160   tokenKey -> {timestamp, timeout}
  timers,         \* pending setTimeout handles: id -> {key, due}
  nextTimer,      \* the next setTimeout handle
  acceptedTokens, \* the tokens validateJWT has accepted so far
  vreq,           \* the requests passing through validateJWT: slot -> request record
  \* ---- the OIDC client service with session handoff (vue-auth-client setup.js:97-545)
  hPkceStorage,   \* setup.js:112   pkceStorage: state -> {codeVerifier, nonce, redirectUrl}
  hTokenStorage,  \* setup.js:125   tokenStorage: sessionId -> tokenSet
  hIssuer,        \* setup.js:128   issuer (and client), None until discovered
  hRandom,        \* values generators.random()/codeVerifier() have returned so far
  hStoredAt,      \* sessionId -> clock value at which /callback stored the token set
  hcb,            \* the GET /callback requests: slot -> request record
  hreq,           \* the requests passing through requireAuth: slot -> request record
  hres,           \* the last answer of GET /api/token or GET /logout
  interactionErrors, \* /interaction/:uid requests without a live interaction: uid -> answer
  \* --- vue-auth-client, one page load of the browser
  localToken,     \* localStorage[tokenKey]
  locationQuery,  \* the `token` parameter of window.location.search
  tokenRef,       \* token.value
  currentUser,    \* currentUser.value
  configRef,      \* config.value
  isLoadingConfig, isVerifyingAuth, isLoadingUser,
  configCache,    \* config manager: the in-memory cache
  sessionConfig,  \* sessionStorage[configKey]
  configLoadPromise, \* config manager: the in-flight marker, 0 is null
  promises,       \* the promises created by loadConfig: id -> state
  onConfigErrorCalls, \* number of calls of options.onConfigError
  isRedirecting, last401Time, \* response interceptor: the closure variables
  redirectTimers, \* response interceptor: due times of the pending setTimeout calls
  redirects,      \* the calls of redirectToAuth, in order
  calls           \* the calls of the plugin's operations: slot -> call record

flowVars == <<pkceStorage, tokenStorage, flows, registeredAt, usedRandom, session,
              interactions, grants, codes, cb>>

jwtVars == <<mwClientId, issuer, jwks, usedTokens, timers, nextTimer, acceptedTokens, vreq>>

uiVars == <<localToken, locationQuery, tokenRef, currentUser, configRef, isLoadingConfig,
           isVerifyingAuth, isLoadingUser, configCache, sessionConfig, configLoadPromise,
           promises, onConfigErrorCalls, isRedirecting, last401Time, redirectTimers,
           redirects, calls>>

handoffVars == <<hPkceStorage, hTokenStorage, hIssuer, hRandom, hStoredAt, hcb, hreq, hres>>

vars == <<now, table, interactionErrors, flowVars, jwtVars, handoffVars, uiVars>>

Slots == 1 .. MaxCallbacks
VSlots == 1 .. MaxRequests

IdleReq == [pc |-> "idle", auth |-> -2, after |-> None, late |-> FALSE,
            verifyCalled |-> FALSE, outcome |-> None, token |-> 0,
            user |-> [sub |-> None, name |-> None, email |-> None, role |-> None]]
Randoms == 1 .. MaxFlows

IdleCb == [pc |-> "idle", state |-> 0, code |-> 0, error |-> None, query |-> None,
           pkceData |-> [codeVerifier |-> 0, nonce |-> 0, redirectUrl |-> None, clientId |-> None],
           found |-> FALSE, exchanged |-> FALSE, outcome |-> None,
           location |-> None,
           token |-> [sub |-> None, role |-> None, aud |-> None, nonce |-> 0]]

InitFlow ==
  /\ pkceStorage = Empty
  /\ tokenStorage = Empty
  /\ flows = Empty
  /\ registeredAt = Empty
  /\ usedRandom = [state |-> {}, nonce |-> {}, codeVerifier |-> {}]
  /\ session = [accountId |-> None, grantId |-> 0]
  /\ interactions = Empty
  /\ grants = Empty
  /\ codes = Empty
  /\ cb = [r \in Slots |-> IdleCb]

InitJWT ==
  /\ issuer = None
  /\ jwks = None
  /\ usedTokens = Empty
  /\ timers = Empty
  /\ nextTimer = 1
  /\ acceptedTokens = {}
  /\ vreq = [r \in VSlots |-> IdleReq]

PSlots == 1 .. MaxProtected

\* an absent id_token or access_token of a token set (undefined)
NoToken == [kind |-> "absent"]

IdleHcb == [pc |-> "idle", state |-> 0, code |-> 0, error |-> None,
            pkceData |-> [codeVerifier |-> 0, nonce |-> 0, redirectUrl |-> None],
            outcome |-> None, location |-> None, session |-> 0]

IdleHreq == [pc |-> "idle", session |-> 0,
             tokenSet |-> [id_token |-> NoToken, access_token |-> NoToken], outcome |-> None]

NoAnswer == [route |-> None, session |-> 0, status |-> 0, error |-> None, token |-> NoToken]

InitHandoff ==
  /\ hPkceStorage = Empty
  /\ hTokenStorage = Empty
  /\ hIssuer = None
  /\ hRandom = [state |-> {}, nonce |-> {}, codeVerifier |-> {}, session |-> {}]
  /\ hStoredAt = Empty
  /\ hcb = [r \in Slots |-> IdleHcb]
  /\ hreq = [r \in PSlots |-> IdleHreq]
  /\ hres = NoAnswer

\* the provider service, in front of a middleware created for admin-ui
\* ---- the browser before the plugin is created
MaxCalls == 2       \* number of calls of the plugin's operations in one page load
MaxLoads == 2       \* number of backend requests for the configuration
MaxRedirects == 2   \* number of redirectToAuth calls
CallSlots == 1 .. MaxCalls
AllCalls == 0 .. MaxCalls   \* slot 0 is the loadConfig call of createAuthPlugin itself
NoConfig == [config |-> None, timestamp |-> 0]
\* what a call settles with: the returned value, the user and the error (the status
\* of the failed request, 0 for no error)
Result(value, user, error) == [value |-> value, user |-> user, error |-> error]
NoResult == Result(None, None, 0)
IdleCall == [op |-> None, pc |-> "idle", promise |-> 0, result |-> NoResult]

InitBrowser ==
  /\ localToken = None
  /\ locationQuery = None
  /\ tokenRef = None
  /\ currentUser = None
  /\ configRef = None
  /\ isLoadingConfig = FALSE
  /\ isVerifyingAuth = FALSE
  /\ isLoadingUser = FALSE
  /\ configCache = NoConfig
  /\ sessionConfig = NoConfig
  /\ configLoadPromise = 0
  /\ promises = << >>
  /\ onConfigErrorCalls = 0
  /\ isRedirecting = FALSE
  /\ last401Time = 0
  /\ redirectTimers = {}
  /\ redirects = << >>
  /\ calls = [c \in AllCalls |-> IdleCall]

Init ==
  /\ now = 0
  /\ table \in Tables
  /\ mwClientId = "admin-ui"
  /\ interactionErrors = Empty
  /\ InitBrowser
  /\ InitFlow
  /\ InitJWT
  /\ InitHandoff

\* ------------------------------------------------------------------ clock
Tick ==
  /\ now < MaxTime
  /\ now' = now + 1
  /\ UNCHANGED <<table, interactionErrors, uiVars, flowVars, jwtVars, handoffVars>>

\* ------------------------------------------------- GET /client/auth
\* index.js:349-364 : throws when the client is not registered or discovery fails
getOidcClientOkAnyClient(clientId, discoverOk) == discoverOk

getOidcClientOk(clientId, discoverOk) ==
  /\ \E a \in applications(table) : a.client_id = clientId
  /\ discoverOk

\* index.js:386-400 : the answer of GET /client/auth, a redirect to the authority's
\* /auth carrying client_id, scope, code_challenge, state and nonce, or the 500 of the catch
ClientAuthResponse(queryClientId, discoverOk, state, nonce, codeVerifier) ==
  LET clientId == IF queryClientId = None THEN "demo-client" ELSE queryClientId IN
  IF getOidcClientOk(clientId, discoverOk)
  THEN [status |-> 302, state |-> state,
        query |-> [client_id |-> clientId,
                   code_challenge |-> codeChallenge(codeVerifier),
                   nonce |-> nonce, scope |-> {"openid", "profile", "email"}]]
  ELSE [status |-> 500, state |-> 0, query |-> None]

\* index.js:367-401 ; the catch branch (397-400) answers 500 and writes nothing
ClientAuth(queryClientId, discoverOk, state, nonce, codeVerifier) ==
  LET clientId == IF queryClientId = None THEN "demo-client" ELSE queryClientId
      redirectUrl == IF clientRedirectUrls(table, clientId) = NULL
                     THEN "http://localhost:3001/" ELSE clientRedirectUrls(table, clientId)
  IN
  /\ Cardinality(usedRandom.state) < MaxFlows
  /\ IF getOidcClientOk(clientId, discoverOk)
     THEN /\ pkceStorage' = Put(pkceStorage, state,
                                [codeVerifier |-> codeVerifier, nonce |-> nonce,
                                 redirectUrl |-> redirectUrl, clientId |-> clientId])
          /\ flows' = Put(flows, state,
                          ClientAuthResponse(queryClientId, discoverOk,
                                             state, nonce, codeVerifier).query)
          /\ registeredAt' = Put(registeredAt, state, now)
          /\ usedRandom' = [state |-> usedRandom.state \cup {state},
                            nonce |-> usedRandom.nonce \cup {nonce},
                            codeVerifier |-> usedRandom.codeVerifier \cup {codeVerifier}]
     ELSE UNCHANGED <<pkceStorage, flows, registeredAt, usedRandom>>
  /\ UNCHANGED <<now, table, interactionErrors, uiVars, jwtVars, handoffVars, tokenStorage, session, interactions, grants, codes, cb>>

\* ------------------------------------------------- the authority (oidc-provider)
\* index.js:523-524, 85-89 : GET /auth, reached through the redirect of GET /client/auth,
\* opens an interaction; the prompt is `login` without a session and `login` or
\* `consent` with an established one.
Prompts == IF session.accountId = None THEN {"login"} ELSE {"login", "consent"}

AuthorityAuth(uid, prompt) ==
  /\ uid \in DOMAIN flows
  /\ uid \notin DOMAIN interactions
  /\ prompt \in Prompts
  /\ interactions' = Put(interactions, uid,
                         [prompt |-> prompt, params |-> flows[uid],
                          status |-> "open", result |-> None])
  /\ UNCHANGED <<now, table, interactionErrors, uiVars, jwtVars, handoffVars, pkceStorage, tokenStorage, flows, registeredAt, usedRandom,
                 session, grants, codes, cb>>

\* provider.Grant.find (index.js:259, 298) : 0 is "no grantId", a missing grant is "not found"
GrantFound(grantId) == grantId # 0 /\ grantId \in DOMAIN grants

\* new provider.Grant({accountId, clientId}) (index.js:262-265, 301-304)
NewGrant(accountId, clientId) ==
  [accountId |-> accountId, clientId |-> clientId, scopes |-> {}, claims |-> {},
   resourceServers |-> Empty]

\* the role kept as one scalar of the grant instead of one entry per client
UpdateGrantScalarRole(grant, scope, clientId, role) ==
  [grant EXCEPT !.scopes = @ \cup scope,
                !.claims = @ \cup {"sub", "name", "email", "email_verified", "role"},
                !.resourceServers = [c \in (DOMAIN @) \cup {clientId} |-> role]]

\* index.js:268-275 / 310-317 : addOIDCScope, addOIDCClaims, resourceServers[clientId] = {role}
UpdateGrant(grant, scope, clientId, role) ==
  [grant EXCEPT !.scopes = @ \cup scope,
                !.claims = @ \cup {"sub", "name", "email", "email_verified", "role"},
                !.resourceServers = Put(@, clientId, role)]

\* grant.save() (index.js:277, 319) : a new grant gets the next id, a loaded one keeps its id
SavedGrantId(grantId) == IF GrantFound(grantId) THEN grantId ELSE Cardinality(DOMAIN grants) + 1

\* provider.interactionFinished (index.js:289-291, 327-329) : the authority resumes the
\* authorization request and issues a code bound to account, client, grant, nonce and
\* PKCE challenge; the session may or may not carry the grant id afterwards.
Finish(uid, accountId, grantId, keepGrantId) ==
  /\ interactions' = [interactions EXCEPT ![uid].status = "finished",
                                          ![uid].result = "Finished"]
  /\ codes' = Put(codes, uid,
                  [accountId |-> accountId,
                   clientId |-> interactions[uid].params.client_id,
                   grantId |-> grantId,
                   nonce |-> interactions[uid].params.nonce,
                   code_challenge |-> interactions[uid].params.code_challenge,
                   used |-> FALSE])
  /\ session' = [accountId |-> accountId,
                 grantId |-> IF keepGrantId THEN grantId ELSE 0]

\* provider.interactionDetails (index.js:153) : resolves for a live interaction and
\* throws SessionNotFound when the interaction is unknown, finished or expired
interactionDetails(uid) ==
  IF uid \in DOMAIN interactions /\ interactions[uid].status = "open"
  THEN "details" ELSE "SessionNotFound"

\* the stored interaction of the authority reaches the end of its lifetime (index.js:155)
InteractionExpire(uid) ==
  /\ uid \in DOMAIN interactions
  /\ interactions[uid].status = "open"
  /\ interactions' = [interactions EXCEPT ![uid].status = "expired"]
  /\ UNCHANGED <<now, table, interactionErrors, uiVars, jwtVars, handoffVars, pkceStorage, tokenStorage, flows,
                 registeredAt, usedRandom, session, grants, codes, cb>>

\* index.js:150-184 : interactionDetails throws; SessionNotFound is answered with the
\* 400 page, any other error is passed on to the default error handler
InteractionError(errName) ==
  IF errName = "SessionNotFound"
  THEN [status |-> 400, page |-> "Session Expired"]
  ELSE [status |-> 500, page |-> "unhandled"]

InteractionSessionNotFound(uid) ==
  /\ interactionDetails(uid) # "details"
  /\ interactionErrors' = Put(interactionErrors, uid, InteractionError(interactionDetails(uid)))
  /\ UNCHANGED <<now, table, uiVars, jwtVars, handoffVars, flowVars>>

\* index.js:227-252 : the pages of a refused login
InteractionPage(result) ==
  CASE result = "InvalidCredentials" -> [status |-> 200, page |-> "Invalid credentials"]
    [] result = "AccessDenied"       -> [status |-> 200, page |-> "Access Denied"]
    [] OTHER                         -> [status |-> 303, page |-> None]

\* the login POST that drops the flow's correlation entry when it refuses the login
InteractionLoginConsuming(uid, login, password, keepGrantId) ==
  /\ uid \in DOMAIN interactions
  /\ interactions[uid].status = "open"
  /\ interactions[uid].prompt = "login"
  /\ ~ \E u \in users : u.id = login /\ u.password = password
  /\ interactions' = [interactions EXCEPT ![uid].result = "InvalidCredentials"]
  /\ pkceStorage' = Del(pkceStorage, uid)
  /\ UNCHANGED <<now, table, interactionErrors, uiVars, jwtVars, handoffVars, tokenStorage, flows,
                 registeredAt, usedRandom, session, grants, codes, cb>>

\* the login POST with the role test placed before the credential test
InteractionLoginRoleFirst(uid, login, password, keepGrantId) ==
  /\ uid \in DOMAIN interactions
  /\ interactions[uid].status = "open"
  /\ interactions[uid].prompt = "login"
  /\ interactions' = [interactions EXCEPT ![uid].result =
        IF userAppRoles(table, login, interactions[uid].params.client_id) = NULL
        THEN "AccessDenied" ELSE "InvalidCredentials"]
  /\ UNCHANGED <<now, table, interactionErrors, uiVars, jwtVars, handoffVars, pkceStorage, tokenStorage, flows,
                 registeredAt, usedRandom, session, grants, codes, cb>>

\* index.js:222-292 : POST /interaction/:uid on the login prompt
InteractionLogin(uid, login, password, keepGrantId) ==
  /\ uid \in DOMAIN interactions
  /\ interactions[uid].status = "open"
  /\ interactions[uid].prompt = "login"
  /\ LET found == { u \in users : u.id = login /\ u.password = password }
         params == interactions[uid].params
         clientId == params.client_id
     IN
     IF found = {}
     THEN /\ interactions' = [interactions EXCEPT ![uid].result = "InvalidCredentials"]
          /\ UNCHANGED <<grants, codes, session>>
     ELSE LET user == CHOOSE u \in found : TRUE
              role == userAppRoles(table, user.id, clientId)
          IN
          IF role = NULL
          THEN /\ interactions' = [interactions EXCEPT ![uid].result = "AccessDenied"]
               /\ UNCHANGED <<grants, codes, session>>
          ELSE LET grantId == session.grantId
                   grant == IF GrantFound(grantId) THEN grants[grantId]
                            ELSE NewGrant(user.id, clientId)
                   savedGrantId == SavedGrantId(grantId)
               IN
               /\ grants' = Put(grants, savedGrantId,
                                UpdateGrant(grant, params.scope, clientId, role))
               /\ Finish(uid, user.id, savedGrantId, keepGrantId)
  /\ UNCHANGED <<now, table, interactionErrors, uiVars, jwtVars, handoffVars, pkceStorage, tokenStorage, flows, registeredAt, usedRandom, cb>>

\* index.js:295-330 : the consent prompt is granted without a screen
InteractionConsent(uid, keepGrantId) ==
  /\ uid \in DOMAIN interactions
  /\ interactions[uid].status = "open"
  /\ interactions[uid].prompt = "consent"
  /\ session.accountId # None
  /\ LET params == interactions[uid].params
         grantId == session.grantId
         grant == IF GrantFound(grantId) THEN grants[grantId]
                  ELSE NewGrant(session.accountId, params.client_id)
         role == userAppRoles(table, session.accountId, params.client_id)
         savedGrantId == SavedGrantId(grantId)
     IN
     /\ grants' = Put(grants, savedGrantId,
                      UpdateGrant(grant, params.scope, params.client_id, role))
     /\ Finish(uid, session.accountId, savedGrantId, keepGrantId)
  /\ UNCHANGED <<now, table, interactionErrors, uiVars, jwtVars, handoffVars, pkceStorage, tokenStorage, flows, registeredAt, usedRandom, cb>>

\* ------------------------------------------------- claims materialization
claimsOfDefaultClient(userId, ctxClientId, hasGrant, grant) ==
  LET user == CHOOSE u \in users : u.id = userId
  IN [sub |-> user.id, name |-> user.name, email |-> user.email, email_verified |-> TRUE,
      role |-> userAppRoles(table, userId, "demo-client")]

\* index.js:107-135 (config.js:108-136) : findAccount(ctx, id).claims()
\* ctxClientId is ctx.oidc.client.clientId (None when absent); hasGrant, grant is ctx.oidc.grant
claims(userId, ctxClientId, hasGrant, grant) ==
  LET user == CHOOSE u \in users : u.id = userId
      viaGrant == ctxClientId = None /\ hasGrant
      clientId == IF viaGrant THEN grant.clientId ELSE ctxClientId
      grantRole == IF viaGrant /\ clientId \in DOMAIN grant.resourceServers
                      /\ grant.resourceServers[clientId] # NULL
                   THEN grant.resourceServers[clientId] ELSE NULL
      role == IF grantRole = NULL /\ clientId # None
              THEN userAppRoles(table, userId, clientId) ELSE grantRole
  IN [sub |-> user.id, name |-> user.name, email |-> user.email, email_verified |-> TRUE,
      role |-> role]

\* ------------------------------------------------- GET /client/callback
\* the authority's token endpoint, as client.callback (index.js:468-476) meets it:
\* the code must exist, be unused, belong to the authenticating client and match the
\* PKCE verifier
CodeAccepted(code, clientId, codeVerifier) ==
  /\ code \in DOMAIN codes
  /\ ~ codes[code].used
  /\ codes[code].clientId = clientId
  /\ codes[code].code_challenge = codeChallenge(codeVerifier)

\* the ID token of an accepted code: the materialized claims, the audience and the nonce
IdToken(code) ==
  LET c == codes[code]
      cl == claims(c.accountId, c.clientId, c.grantId \in DOMAIN grants,
                   IF c.grantId \in DOMAIN grants THEN grants[c.grantId]
                   ELSE NewGrant(None, None))
  IN [sub |-> cl.sub, role |-> cl.role, aud |-> c.clientId, nonce |-> c.nonce]

CatchCleanupSkipped(state) == pkceStorage

\* index.js:505-508 : the catch branch deletes the entry of req.query.state
CatchCleanup(state) == IF state # 0 THEN Del(pkceStorage, state) ELSE pkceStorage

Answer(r, outcome) == [cb EXCEPT ![r].pc = "done", ![r].outcome = outcome]

\* index.js:409-520 : the page each failure is answered with; every page carries the
\* link <a href="/client/auth">Try again</a>
ErrorPage(outcome) ==
  CASE outcome = "MissingState" ->
         [status |-> 400, heading |-> "Invalid callback: missing state parameter",
          message |-> None, retry |-> "/client/auth"]
    [] outcome = "UnknownOrExpiredState" ->
         [status |-> 400, heading |-> "Invalid callback: PKCE data not found or expired",
          message |-> None, retry |-> "/client/auth"]
    [] outcome = "AuthorityError" ->
         [status |-> 400, heading |-> "Authentication Error",
          message |-> "params.error", retry |-> "/client/auth"]
    [] outcome = "MissingCode" ->
         [status |-> 400, heading |-> "Invalid callback: missing code parameter",
          message |-> None, retry |-> "/client/auth"]
    [] outcome = "ExchangeFailed" ->
         [status |-> 500, heading |-> "Error during authentication",
          message |-> "error.message of getOidcClient or client.callback",
          retry |-> "/client/auth"]
    [] outcome = "MissingSubject" ->
         [status |-> 500, heading |-> "Error during authentication",
          message |-> "No sub claim in token", retry |-> "/client/auth"]
    [] OTHER -> [status |-> 302, heading |-> None, message |-> None, retry |-> None]

CallbackStartCodeFirst(r, state, code, error, query) ==
  /\ cb[r].pc = "idle"
  /\ \A q \in Slots : q < r => cb[q].pc # "idle"
  /\ LET req == [cb[r] EXCEPT !.state = state, !.code = code, !.error = error,
                              !.query = query] IN
     IF state = 0
     THEN /\ cb' = [cb EXCEPT ![r] = [req EXCEPT !.pc = "done", !.outcome = "MissingState"]]
          /\ UNCHANGED pkceStorage
     ELSE IF state \notin DOMAIN pkceStorage
     THEN /\ cb' = [cb EXCEPT ![r] = [req EXCEPT !.pc = "done",
                                                 !.outcome = "UnknownOrExpiredState"]]
          /\ UNCHANGED pkceStorage
     ELSE IF code = 0
     THEN /\ pkceStorage' = Del(pkceStorage, state)
          /\ cb' = [cb EXCEPT ![r] = [req EXCEPT !.pc = "done", !.found = TRUE,
                                                 !.outcome = "MissingCode"]]
     ELSE IF error # None
     THEN /\ pkceStorage' = Del(pkceStorage, state)
          /\ cb' = [cb EXCEPT ![r] = [req EXCEPT !.pc = "done", !.found = TRUE,
                                                 !.outcome = "AuthorityError"]]
     ELSE /\ cb' = [cb EXCEPT ![r] = [req EXCEPT !.pc = "getClient", !.found = TRUE,
                                                 !.pkceData = pkceStorage[state]]]
          /\ UNCHANGED pkceStorage
  /\ UNCHANGED <<now, table, interactionErrors, uiVars, jwtVars, handoffVars, tokenStorage, flows, registeredAt, usedRandom, session,
                 interactions, grants, codes>>

\* index.js:404-462 : the synchronous prefix, up to `await getOidcClient`
CallbackStart(r, state, code, error, query) ==
  /\ cb[r].pc = "idle"
  /\ \A q \in Slots : q < r => cb[q].pc # "idle"
  /\ LET req == [cb[r] EXCEPT !.state = state, !.code = code, !.error = error,
                              !.query = query] IN
     IF state = 0
     THEN /\ cb' = [cb EXCEPT ![r] = [req EXCEPT !.pc = "done", !.outcome = "MissingState"]]
          /\ UNCHANGED pkceStorage
     ELSE IF state \notin DOMAIN pkceStorage
     THEN /\ cb' = [cb EXCEPT ![r] = [req EXCEPT !.pc = "done",
                                                 !.outcome = "UnknownOrExpiredState"]]
          /\ UNCHANGED pkceStorage
     ELSE IF error # None
     THEN /\ pkceStorage' = Del(pkceStorage, state)
          /\ cb' = [cb EXCEPT ![r] = [req EXCEPT !.pc = "done", !.found = TRUE,
                                                 !.outcome = "AuthorityError"]]
     ELSE IF code = 0
     THEN /\ pkceStorage' = Del(pkceStorage, state)
          /\ cb' = [cb EXCEPT ![r] = [req EXCEPT !.pc = "done", !.found = TRUE,
                                                 !.outcome = "MissingCode"]]
     ELSE /\ cb' = [cb EXCEPT ![r] = [req EXCEPT !.pc = "getClient", !.found = TRUE,
                                                 !.pkceData = pkceStorage[state]]]
          /\ UNCHANGED pkceStorage
  /\ UNCHANGED <<now, table, interactionErrors, uiVars, jwtVars, handoffVars, tokenStorage, flows, registeredAt, usedRandom, session,
                 interactions, grants, codes>>

\* index.js:464-476 : getOidcClient resolves and client.callback sends the token request;
\* a discovery failure goes to the catch branch (502-520)
CallbackGetClient(r, discoverOk) ==
  /\ cb[r].pc = "getClient"
  /\ IF getOidcClientOk(cb[r].pkceData.clientId, discoverOk)
     THEN /\ cb' = [cb EXCEPT ![r].pc = "exchange", ![r].exchanged = TRUE]
          /\ UNCHANGED pkceStorage
     ELSE /\ pkceStorage' = CatchCleanup(cb[r].state)
          /\ cb' = Answer(r, "ExchangeFailed")
  /\ UNCHANGED <<now, table, interactionErrors, uiVars, jwtVars, handoffVars, tokenStorage, flows, registeredAt, usedRandom, session,
                 interactions, grants, codes>>

\* index.js:468-520 : the token request is answered; success deletes the entry and
\* redirects with the token, every failure deletes the entry in the catch branch
CallbackExchange(r, networkOk) ==
  /\ cb[r].pc = "exchange"
  /\ LET d == cb[r].pkceData
         accepted == networkOk /\ CodeAccepted(cb[r].code, d.clientId, d.codeVerifier)
         idToken == IdToken(cb[r].code)
     IN
     /\ codes' = IF accepted THEN [codes EXCEPT ![cb[r].code].used = TRUE] ELSE codes
     /\ IF ~ accepted \/ idToken.nonce # d.nonce
        THEN /\ pkceStorage' = CatchCleanup(cb[r].state)
             /\ cb' = Answer(r, "ExchangeFailed")
        ELSE /\ pkceStorage' = Del(pkceStorage, cb[r].state)
             /\ IF idToken.sub = None
                THEN cb' = Answer(r, "MissingSubject")
                ELSE cb' = [cb EXCEPT ![r].pc = "done", ![r].outcome = "Completed",
                                      ![r].location = d.redirectUrl,
                                      ![r].token = idToken]
  /\ UNCHANGED <<now, table, interactionErrors, uiVars, jwtVars, handoffVars, tokenStorage, flows, registeredAt, usedRandom, session,
                 interactions, grants>>

\* index.js:497-501 : the query of the redirect that answers a completed callback
RedirectQuery(r) == [token |-> cb[r].token]

\* ------------------------------------------------- GET /api/token
ApiTokenResponseThrows(storage, sessionId) ==
  IF sessionId = 0
  THEN [status |-> 400, error |-> "session parameter required", token |-> NoToken]
  ELSE IF sessionId \notin DOMAIN storage
  THEN [status |-> 500, error |-> "TypeError", token |-> NoToken]
  ELSE [status |-> 200, error |-> None, token |-> storage[sessionId].id_token]

\* index.js:527-548 (setup.js:463-484) : the answer for a session id (0: no `session`
\* parameter) from a token storage
ApiTokenResponse(storage, sessionId) ==
  IF sessionId = 0
  THEN [status |-> 400, error |-> "session parameter required", token |-> NoToken]
  ELSE IF sessionId \notin DOMAIN storage
  THEN [status |-> 404, error |-> "session not found or expired", token |-> NoToken]
  ELSE LET tokenSet == storage[sessionId]
           token == IF tokenSet.id_token # NoToken THEN tokenSet.id_token
                    ELSE tokenSet.access_token
       IN IF token = NoToken
          THEN [status |-> 404, error |-> "token not found", token |-> NoToken]
          ELSE [status |-> 200, error |-> None, token |-> token]

\* ------------------------------------------------- specification of the provider service
\* generators.random() / generators.codeVerifier() (index.js:373-378) return a value never
\* returned before; the values are opaque, so the least unused one stands for all of them
Fresh(used) ==
  IF Randoms \ used = {} THEN {}
  ELSE { CHOOSE x \in Randoms \ used : \A y \in Randoms \ used : x <= y }

\* inputs of the requests
ClientIdInputs ==
  {None, "unknown", "demo-client", IF table = "index.js" THEN "app2" ELSE "filebump-admin"}
Credentials ==
  { <<"user1", "pass1">>, <<"user1", "wrong">>, <<"nobody", "pass1">>,
    IF table = "index.js" THEN <<"user2", "pass2">> ELSE <<"admin", "admin">> }
CodeInputs == {0} \cup DOMAIN codes

ClientAuthStep ==
  \E c \in ClientIdInputs, ok \in BOOLEAN,
     st \in Fresh(usedRandom.state),
     n \in Fresh(usedRandom.nonce),
     v \in Fresh(usedRandom.codeVerifier) :
     ClientAuth(c, ok, st, n, v)

\* the callback requests whose code parameter is drawn from codeInputs
CallbackRequests(codeInputs) ==
  \/ \E r \in Slots, st \in 0 .. MaxFlows, code \in codeInputs,
        e \in {None, "access_denied"} : CallbackStart(r, st, code, e, None)
  \/ \E r \in Slots, ok \in BOOLEAN : CallbackGetClient(r, ok)
  \/ \E r \in Slots, ok \in BOOLEAN : CallbackExchange(r, ok)

CallbackStep == CallbackRequests(CodeInputs)

Next ==
  \/ ClientAuthStep
  \/ \E uid \in Randoms, p \in {"login", "consent"} : AuthorityAuth(uid, p)
  \/ \E uid \in Randoms, c \in Credentials, k \in BOOLEAN :
        InteractionLogin(uid, c[1], c[2], k)
  \/ \E uid \in Randoms, k \in BOOLEAN : InteractionConsent(uid, k)
  \/ CallbackStep

Spec == Init /\ [][Next]_vars

\* the same service with the clock running and no login at the authority: flows are
\* registered and abandoned, callbacks arrive at any time, with no code or with a code
\* the authority never issued
NextTTL ==
  \/ Tick
  \/ ClientAuthStep
  \/ CallbackRequests({0} \cup Randoms)

SpecTTL == Init /\ [][NextTTL]_vars

\* =========================================================== the JWT middleware
\* config.js:163 : 60 * 60 * 1000 ms; the clock unit of the model is half an hour
TOKEN_TTL == 2

\* index.js:5-6 : the issuer the validator discovers
ISSUER == "http://localhost:3000"

\* config.js:325, 349 : the audience validateJWT compares with
ExpectedAudience == "admin-ui"

\* ---- the tokens presented to the validator.  A token is its three segments: the
\* header ("h" or empty), the payload (a JSON object, text that is no JSON, or empty)
\* with the claims of the JSON object, and the signature ("good": made by the
\* authority's key over this header and payload, "bad", or empty).  A string claim is a
\* sequence of characters.
BaseToken(nonce, sub, iat, role) ==
  [segs |-> 3, header |-> "h", payload |-> "json", signature |-> "good",
   iss |-> ISSUER, aud |-> [isArray |-> FALSE, vals |-> <<"admin-ui">>],
   sub |-> <<sub>>, iat |-> iat, exp |-> iat + TOKEN_TTL,
   name |-> <<sub, "name">>, email |-> <<sub, "@example.com">>,
   nonce |-> [type |-> "string", val |-> nonce], role |-> role]

T1 == BaseToken(<<"n1">>, "user1", 0, "user")

Tokens ==
  << T1,
     BaseToken(<<"n1">>, "user2", 0, "admin"),
     BaseToken(<<"n1">>, "user1", 1, "user"),
     [T1 EXCEPT !.iss = "http://evil.example"],
     [T1 EXCEPT !.aud = [isArray |-> FALSE, vals |-> <<"demo-client">>]],
     [T1 EXCEPT !.aud = [isArray |-> TRUE, vals |-> <<"demo-client", "admin-ui">>]],
     [T1 EXCEPT !.signature = "bad"],
     [T1 EXCEPT !.header = ""],
     [T1 EXCEPT !.signature = ""],
     [T1 EXCEPT !.segs = 2],
     [T1 EXCEPT !.payload = ""],
     [T1 EXCEPT !.payload = "garbage"],
     [T1 EXCEPT !.nonce = [type |-> "absent", val |-> <<>>]],
     [T1 EXCEPT !.nonce = [type |-> "string", val |-> <<>>]],
     [T1 EXCEPT !.nonce = [type |-> "number", val |-> <<"7">>]],
     [T1 EXCEPT !.header = "", !.iss = "http://evil.example"],
     [T1 EXCEPT !.signature = "", !.aud = [isArray |-> FALSE, vals |-> <<"demo-client">>]],
     [T1 EXCEPT !.role = NULL],
     [T1 EXCEPT !.role = None],
     [BaseToken(<<"n2">>, "user1", 0, "user") EXCEPT !.exp = 2 * TOKEN_TTL] >>

TokenIds == 1 .. Len(Tokens)

\* the Authorization header of a request: -2 no header, -1 a header that does not start
\* with "Bearer ", 0 "Bearer " followed by nothing, t >= 1 "Bearer " followed by Tokens[t]
AuthHeaders == {-2, -1, 0} \cup TokenIds

\* config.js:166-168 : `${nonce}:${sub}:${iat}`
getTokenKey(nonce, sub, iat) == nonce \o <<":">> \o sub \o <<":">> \o <<ToString(iat)>>

KeyOf(t) == getTokenKey(Tokens[t].nonce.val, Tokens[t].sub, Tokens[t].iat)

\* config.js:324-325 : Array.isArray(payload.aud) ? payload.aud : [payload.aud], includes
AudienceAccepted(aud) == \E i \in 1 .. Len(aud.vals) : aud.vals[i] = ExpectedAudience

\* config.js:347-350 : jwtVerify(token, jwksSet, {issuer, audience: 'admin-ui'}) verifies
\* the compact form, the signature, exp, iss and aud; without a key set it throws
jwtVerifyOk(t, jwksSet) ==
  /\ jwksSet # None
  /\ Tokens[t].segs = 3
  /\ Tokens[t].header = "h"
  /\ Tokens[t].payload = "json"
  /\ Tokens[t].signature = "good"
  /\ Tokens[t].exp > now
  /\ Tokens[t].iss = issuer
  /\ AudienceAccepted(Tokens[t].aud)

\* config.js:369-384 : the nonce must be a non-empty string
NonceOkAnything(nonce) == TRUE

NonceOk(nonce) == nonce.type = "string" /\ Len(nonce.val) > 0

GuardVerdictRejectsExpired(key) ==
  IF key \in DOMAIN usedTokens
  THEN IF now - usedTokens[key].timestamp < TOKEN_TTL THEN "reuse" ELSE "expired"
  ELSE "record"

GuardVerdictSingleUse(key) ==
  IF key \in DOMAIN usedTokens
  THEN IF now - usedTokens[key].timestamp < TOKEN_TTL THEN "replay" ELSE "evict"
  ELSE "record"

\* config.js:390-407 : a live entry is a legitimate reuse, an expired one is evicted
GuardVerdict(key) ==
  IF key \in DOMAIN usedTokens
  THEN IF now - usedTokens[key].timestamp < TOKEN_TTL THEN "reuse" ELSE "evict"
  ELSE "record"

Reject(req, error) == [req EXCEPT !.pc = "done", !.outcome = error]

\* config.js:278-366 : what follows `await getClient()` of line 276, up to the call of
\* jwtVerify; jw is the key set getClient returns at line 337
AfterGetClient(req, jw) ==
  LET t == Tokens[req.auth] IN
  IF req.after = "unauthorized" THEN Reject(req, "unauthorized")
  ELSE IF t.segs # 3 THEN Reject(req, "invalid_token")
  ELSE IF t.payload # "json" THEN Reject(req, "invalid_token")
  ELSE IF t.iss # ISSUER THEN Reject(req, "invalid_issuer")
  ELSE IF ~ AudienceAccepted(t.aud) THEN Reject(req, "invalid_audience")
  ELSE IF jw = None
  THEN [Reject(req, "invalid_signature") EXCEPT !.verifyCalled = TRUE]
  ELSE [req EXCEPT !.pc = "verify", !.verifyCalled = TRUE]

\* config.js:236-276 : the header stage and the call of getClient (202-233), which
\* returns at once when the issuer is cached and starts the discovery otherwise
ValidateStart(r, auth) ==
  /\ vreq[r].pc = "idle"
  /\ \A q \in VSlots : q < r => vreq[q].pc # "idle"
  /\ LET req == [IdleReq EXCEPT !.auth = auth,
                                !.late = auth \in acceptedTokens,
                                !.after = IF auth < 0 THEN "unauthorized" ELSE "checks"]
     IN
     IF auth = 0
     THEN vreq' = [vreq EXCEPT ![r] = Reject(req, "unauthorized")]
     ELSE IF issuer = None
     THEN vreq' = [vreq EXCEPT ![r] = [req EXCEPT !.pc = "discover"]]
     ELSE vreq' = [vreq EXCEPT ![r] = AfterGetClient(req, jwks)]
  /\ UNCHANGED <<now, table, interactionErrors, uiVars, flowVars, handoffVars, mwClientId, issuer, jwks, usedTokens, timers,
                 nextTimer, acceptedTokens>>

\* config.js:204-217 : Issuer.discover answers; a failure is thrown into the catch of
\* validateJWT (433-439)
DiscoverDone(r, ok) ==
  /\ vreq[r].pc = "discover"
  /\ IF ok
     THEN /\ issuer' = ISSUER
          /\ vreq' = [vreq EXCEPT ![r].pc = "fetch"]
     ELSE /\ issuer' = issuer
          /\ vreq' = [vreq EXCEPT ![r] = Reject(@, "validation_error")]
  /\ UNCHANGED <<now, table, interactionErrors, uiVars, flowVars, handoffVars, mwClientId, jwks, usedTokens, timers, nextTimer,
                 acceptedTokens>>

\* config.js:217-232 : the JWKS endpoint answers; on success the key set is cached and
\* getClient returns, on failure the error is thrown and the issuer stays cached
FetchDone(r, ok) ==
  /\ vreq[r].pc = "fetch"
  /\ IF ok
     THEN /\ jwks' = "jwks"
          /\ vreq' = [vreq EXCEPT ![r] = AfterGetClient(@, "jwks")]
     ELSE /\ jwks' = jwks
          /\ vreq' = [vreq EXCEPT ![r] = Reject(@, "validation_error")]
  /\ UNCHANGED <<now, table, interactionErrors, uiVars, flowVars, handoffVars, mwClientId, issuer, usedTokens, timers, nextTimer,
                 acceptedTokens>>

VerifyDoneRecordsBeforeNonce(r) ==
  /\ vreq[r].pc = "verify"
  /\ LET t == vreq[r].auth
         key == KeyOf(t)
         verdict == GuardVerdict(key)
     IN
     IF ~ jwtVerifyOk(t, jwks)
     THEN /\ vreq' = [vreq EXCEPT ![r] = Reject(@, "invalid_signature")]
          /\ UNCHANGED <<usedTokens, timers, nextTimer, acceptedTokens>>
     ELSE /\ verdict = "reuse" \/ nextTimer <= MaxTimers
          /\ IF verdict = "reuse"
             THEN UNCHANGED <<usedTokens, timers, nextTimer>>
             ELSE /\ usedTokens' = Put(usedTokens, key,
                                       [timestamp |-> now, timeout |-> nextTimer])
                  /\ timers' = Put(IF verdict = "evict"
                                   THEN Del(timers, usedTokens[key].timeout)
                                   ELSE timers,
                                   nextTimer, [key |-> key, due |-> now + TOKEN_TTL])
                  /\ nextTimer' = nextTimer + 1
          /\ IF ~ NonceOk(Tokens[t].nonce)
             THEN /\ vreq' = [vreq EXCEPT ![r] = Reject(@, "invalid_nonce")]
                  /\ UNCHANGED acceptedTokens
             ELSE /\ acceptedTokens' = acceptedTokens \cup {t}
                  /\ vreq' = [vreq EXCEPT ![r].pc = "done", ![r].outcome = "next",
                                          ![r].token = t,
                                          ![r].user = [sub |-> Tokens[t].sub[1],
                                                       name |-> Tokens[t].name,
                                                       email |-> Tokens[t].email,
                                                       role |-> Tokens[t].role]]
  /\ UNCHANGED <<now, table, interactionErrors, uiVars, flowVars, handoffVars, mwClientId, issuer, jwks>>

\* config.js:347-432 : jwtVerify answers; nonce stage, replay guard, req.user, next()
VerifyDone(r) ==
  /\ vreq[r].pc = "verify"
  /\ LET t == vreq[r].auth
         key == KeyOf(t)
         verdict == GuardVerdict(key)
     IN
     IF ~ jwtVerifyOk(t, jwks)
     THEN /\ vreq' = [vreq EXCEPT ![r] = Reject(@, "invalid_signature")]
          /\ UNCHANGED <<usedTokens, timers, nextTimer, acceptedTokens>>
     ELSE IF ~ NonceOk(Tokens[t].nonce)
     THEN /\ vreq' = [vreq EXCEPT ![r] = Reject(@, "invalid_nonce")]
          /\ UNCHANGED <<usedTokens, timers, nextTimer, acceptedTokens>>
     ELSE IF verdict \notin {"reuse", "evict", "record"}
     THEN /\ vreq' = [vreq EXCEPT ![r] = Reject(@, "invalid_nonce")]
          /\ UNCHANGED <<usedTokens, timers, nextTimer, acceptedTokens>>
     ELSE /\ verdict = "reuse" \/ nextTimer <= MaxTimers
          /\ IF verdict = "reuse"
             THEN UNCHANGED <<usedTokens, timers, nextTimer>>
             ELSE /\ usedTokens' = Put(usedTokens, key,
                                       [timestamp |-> now, timeout |-> nextTimer])
                  /\ timers' = Put(IF verdict = "evict"
                                   THEN Del(timers, usedTokens[key].timeout)
                                   ELSE timers,
                                   nextTimer, [key |-> key, due |-> now + TOKEN_TTL])
                  /\ nextTimer' = nextTimer + 1
          /\ acceptedTokens' = acceptedTokens \cup {t}
          /\ vreq' = [vreq EXCEPT ![r].pc = "done", ![r].outcome = "next",
                                  ![r].token = t,
                                  ![r].user = [sub |-> Tokens[t].sub[1],
                                               name |-> Tokens[t].name,
                                               email |-> Tokens[t].email,
                                               role |-> Tokens[t].role]]
  /\ UNCHANGED <<now, table, interactionErrors, uiVars, flowVars, handoffVars, mwClientId, issuer, jwks>>

\* ---- the role gate and the protected routes
NoUser == IdleReq.user

requireRoleAnyRole(allowedRoles, user) ==
  IF user = NoUser THEN [status |-> 401, error |-> "unauthorized"]
  ELSE IF user.role \in {NULL, None} THEN [status |-> 403, error |-> "forbidden"]
  ELSE [status |-> 200, error |-> "next"]

requireRoleMissingRoleIsAnonymous(allowedRoles, user) ==
  IF user = NoUser \/ user.role \in {NULL, None}
  THEN [status |-> 401, error |-> "unauthorized"]
  ELSE IF user.role \notin allowedRoles THEN [status |-> 403, error |-> "forbidden"]
  ELSE [status |-> 200, error |-> "next"]

\* config.js:442-468 (admin-backend/index.js:311-336) : the answer of the middleware
\* requireRole(...allowedRoles) for req.user; status 200 and "next" is the call of next()
requireRole(allowedRoles, user) ==
  IF user = NoUser THEN [status |-> 401, error |-> "unauthorized"]
  ELSE IF user.role \in {NULL, None} THEN [status |-> 403, error |-> "forbidden"]
  ELSE IF user.role \notin allowedRoles THEN [status |-> 403, error |-> "forbidden"]
  ELSE [status |-> 200, error |-> "next"]

\* admin-backend/index.js:367-404 : the protected routes and the roles they allow
Routes == {"/api/user", "/api/admin", "/api/data"}

AllowedRoles(route) == IF route = "/api/admin" THEN {"admin"} ELSE {"admin", "user"}

\* admin-backend/index.js:367-404 : app.get(route, validateJWT, requireRole(...), handler)
\* for a request validateJWT has answered or passed on: the route's handler runs when
\* validateJWT and, on the gated routes, requireRole have called next(); everything after
\* the next() of validateJWT is synchronous
RouteAnswer(route, req) ==
  IF req.outcome # "next" THEN [status |-> 401, error |-> req.outcome]
  ELSE IF route = "/api/user" THEN [status |-> 200, error |-> "handler"]
  ELSE IF requireRole(AllowedRoles(route), req.user).error = "next"
  THEN [status |-> 200, error |-> "handler"]
  ELSE requireRole(AllowedRoles(route), req.user)

\* config.js:171-178 : the deletion timer of an entry fires
TimerFire(id) ==
  /\ id \in DOMAIN timers
  /\ now >= timers[id].due
  /\ usedTokens' = Del(usedTokens, timers[id].key)
  /\ timers' = Del(timers, id)
  /\ UNCHANGED <<now, table, interactionErrors, uiVars, flowVars, handoffVars, mwClientId, issuer, jwks, nextTimer, acceptedTokens, vreq>>

SweepKeepsTimers ==
  LET expired == { k \in DOMAIN usedTokens : now - usedTokens[k].timestamp > TOKEN_TTL }
  IN
  /\ expired # {}
  /\ usedTokens' = [k \in (DOMAIN usedTokens) \ expired |-> usedTokens[k]]
  /\ UNCHANGED <<now, table, interactionErrors, uiVars, flowVars, handoffVars, mwClientId, issuer, jwks, timers, nextTimer, acceptedTokens, vreq>>

SweepCancelsOnly ==
  LET expired == { k \in DOMAIN usedTokens : now - usedTokens[k].timestamp > TOKEN_TTL }
      cleared == { usedTokens[k].timeout : k \in expired }
  IN
  /\ expired # {}
  /\ timers' = [i \in (DOMAIN timers) \ cleared |-> timers[i]]
  /\ UNCHANGED <<now, table, interactionErrors, uiVars, flowVars, handoffVars, mwClientId, issuer, jwks, usedTokens, nextTimer, acceptedTokens, vreq>>

\* config.js:182-200 : the periodic sweep
Sweep ==
  LET expired == { k \in DOMAIN usedTokens : now - usedTokens[k].timestamp > TOKEN_TTL }
      cleared == { usedTokens[k].timeout : k \in expired }
  IN
  /\ expired # {}
  /\ usedTokens' = [k \in (DOMAIN usedTokens) \ expired |-> usedTokens[k]]
  /\ timers' = [i \in (DOMAIN timers) \ cleared |-> timers[i]]
  /\ UNCHANGED <<now, table, interactionErrors, uiVars, flowVars, handoffVars, mwClientId, issuer, jwks, nextTimer, acceptedTokens, vreq>>

\* createJWTMiddleware({providerUrl, clientId}) (config.js:146-150) for one of the
\* registered clients, in front of an untouched provider
InitValidator ==
  /\ now = 0
  /\ table = "config.js"
  /\ mwClientId \in {"admin-ui", "demo-client"}
  /\ interactionErrors = Empty
  /\ InitBrowser
  /\ InitFlow
  /\ InitJWT
  /\ InitHandoff

NextJWT ==
  \/ Tick
  \/ \E r \in VSlots, auth \in AuthHeaders : ValidateStart(r, auth)
  \/ \E r \in VSlots, ok \in BOOLEAN : DiscoverDone(r, ok)
  \/ \E r \in VSlots, ok \in BOOLEAN : FetchDone(r, ok)
  \/ \E r \in VSlots : VerifyDone(r)
  \/ \E id \in 1 .. MaxTimers : TimerFire(id)
  \/ Sweep

SpecJWT == InitValidator /\ [][NextJWT]_vars

\* ---- the replay guard under a clock that runs past every deletion
\* config.js:200 : the sweep runs every 5 minutes, which is at least once per clock unit
SWEEP_INTERVAL == 1

\* config.js:187 : the entries the sweep deletes
ExpiredKeys == { k \in DOMAIN usedTokens : now - usedTokens[k].timestamp > TOKEN_TTL }

\* the clock advances by one sweep interval; setInterval has run the sweep that was due
TickSwept ==
  /\ ExpiredKeys = {}
  /\ now < MaxGuardTime
  /\ now' = now + 1
  /\ UNCHANGED <<table, interactionErrors, uiVars, flowVars, jwtVars, handoffVars>>

\* the tokens presented in SpecGuard: valid ones of Tokens, a long-lived one, a forged one
GuardTokens == {1, 3, 7, Len(Tokens)}

NextGuard ==
  \/ TickSwept
  \/ \E r \in VSlots, auth \in GuardTokens : ValidateStart(r, auth)
  \/ \E r \in VSlots, ok \in BOOLEAN : DiscoverDone(r, ok)
  \/ \E r \in VSlots, ok \in BOOLEAN : FetchDone(r, ok)
  \/ \E r \in VSlots : VerifyDone(r)
  \/ \E id \in 1 .. MaxTimers : TimerFire(id)
  \/ Sweep

\* time passes, the interval of the sweep and the timers of setTimeout fire
SpecGuard ==
  /\ InitValidator
  /\ [][NextGuard]_vars
  /\ WF_vars(TickSwept)
  /\ WF_vars(Sweep)
  /\ \A id \in 1 .. MaxTimers : WF_vars(TimerFire(id))

\* ============================== the OIDC client service with session handoff
\* setup.js:128-142 : getClient discovers the authority once and caches issuer and client
hGetClientOk(discoverOk) == hIssuer # None \/ discoverOk

\* setup.js:239-273 : GET /auth ; the catch branch answers 500 and writes nothing
HandoffAuth(discoverOk, state, nonce, codeVerifier) ==
  /\ IF hGetClientOk(discoverOk)
     THEN /\ hIssuer' = ISSUER
          /\ hPkceStorage' = Put(hPkceStorage, state,
                                 [codeVerifier |-> codeVerifier, nonce |-> nonce,
                                  redirectUrl |-> "http://localhost:3001/"])
          /\ hRandom' = [hRandom EXCEPT !.state = @ \cup {state},
                                        !.nonce = @ \cup {nonce},
                                        !.codeVerifier = @ \cup {codeVerifier}]
     ELSE UNCHANGED <<hIssuer, hPkceStorage, hRandom>>
  /\ UNCHANGED <<now, table, interactionErrors, uiVars, flowVars, jwtVars, hTokenStorage, hStoredAt, hcb, hreq, hres>>

HAnswer(r, outcome) == [hcb EXCEPT ![r].pc = "done", ![r].outcome = outcome]

\* setup.js:275-332 : GET /callback, the synchronous prefix up to `await getClient()`
HandoffCallbackStart(r, state, code, error) ==
  /\ hcb[r].pc = "idle"
  /\ \A q \in Slots : q < r => hcb[q].pc # "idle"
  /\ LET req == [hcb[r] EXCEPT !.state = state, !.code = code, !.error = error] IN
     IF state = 0
     THEN /\ hcb' = [hcb EXCEPT ![r] = [req EXCEPT !.pc = "done", !.outcome = "MissingState"]]
          /\ UNCHANGED hPkceStorage
     ELSE IF state \notin DOMAIN hPkceStorage
     THEN /\ hcb' = [hcb EXCEPT ![r] = [req EXCEPT !.pc = "done",
                                                   !.outcome = "UnknownOrExpiredState"]]
          /\ UNCHANGED hPkceStorage
     ELSE IF error # None
     THEN /\ hPkceStorage' = Del(hPkceStorage, state)
          /\ hcb' = [hcb EXCEPT ![r] = [req EXCEPT !.pc = "done", !.outcome = "AuthorityError"]]
     ELSE IF code = 0
     THEN /\ hPkceStorage' = Del(hPkceStorage, state)
          /\ hcb' = [hcb EXCEPT ![r] = [req EXCEPT !.pc = "done", !.outcome = "MissingCode"]]
     ELSE /\ hcb' = [hcb EXCEPT ![r] = [req EXCEPT !.pc = "exchange",
                                                   !.pkceData = hPkceStorage[state]]]
          /\ UNCHANGED hPkceStorage
  /\ UNCHANGED <<now, table, interactionErrors, uiVars, flowVars, jwtVars, hTokenStorage, hIssuer, hRandom, hStoredAt,
                 hreq, hres>>

\* the token set client.callback returns for an accepted code: an ID token of the
\* authority for demo-client and an access token
TokenSetAt(time) ==
  [id_token |-> [kind |-> "id_token", sub |-> "user1", exp |-> time + IdTokenLifetime,
                 iss |-> ISSUER, aud |-> "demo-client"],
   access_token |-> [kind |-> "access_token"]]

\* setup.js:334-393 : getClient and client.callback answer; success stores the token set
\* under a new session id and redirects with it, a failure goes to the catch branch
HandoffCallbackDone(r, discoverOk, exchangeOk, sessionId) ==
  /\ hcb[r].pc = "exchange"
  /\ IF ~ hGetClientOk(discoverOk)
     THEN /\ hPkceStorage' = Del(hPkceStorage, hcb[r].state)
          /\ hcb' = HAnswer(r, "ExchangeFailed")
          /\ UNCHANGED <<hIssuer, hTokenStorage, hStoredAt, hRandom>>
     ELSE /\ hIssuer' = ISSUER
          /\ hPkceStorage' = Del(hPkceStorage, hcb[r].state)
          /\ IF ~ exchangeOk
             THEN /\ hcb' = HAnswer(r, "ExchangeFailed")
                  /\ UNCHANGED <<hTokenStorage, hStoredAt, hRandom>>
             ELSE /\ hTokenStorage' = Put(hTokenStorage, sessionId, TokenSetAt(now))
                  /\ hStoredAt' = Put(hStoredAt, sessionId, now)
                  /\ hRandom' = [hRandom EXCEPT !.session = @ \cup {sessionId}]
                  /\ hcb' = [hcb EXCEPT ![r].pc = "done", ![r].outcome = "Completed",
                                        ![r].location = hcb[r].pkceData.redirectUrl,
                                        ![r].session = sessionId]
  /\ UNCHANGED <<now, table, interactionErrors, uiVars, flowVars, jwtVars, hreq, hres>>

\* setup.js:156-172 : requireAuth, the synchronous prefix up to `await getClient()`
RequireAuthStart(r, sessionId) ==
  /\ hreq[r].pc = "idle"
  /\ IF sessionId = 0 \/ sessionId \notin DOMAIN hTokenStorage
     THEN hreq' = [hreq EXCEPT ![r] = [pc |-> "done", session |-> sessionId,
                                       tokenSet |-> IdleHreq.tokenSet,
                                       outcome |-> "redirect /auth"]]
     ELSE hreq' = [hreq EXCEPT ![r] = [pc |-> "getClient", session |-> sessionId,
                                       tokenSet |-> hTokenStorage[sessionId],
                                       outcome |-> None]]
  /\ UNCHANGED <<now, table, interactionErrors, uiVars, flowVars, jwtVars, hPkceStorage, hTokenStorage, hIssuer,
                 hRandom, hStoredAt, hcb, hres>>

\* setup.js:182-197 : the ID token of the token set is unexpired, of the discovered
\* issuer and for demo-client
IdTokenValid(tokenSet, discovered) ==
  /\ tokenSet.id_token # NoToken
  /\ ~ (tokenSet.id_token.exp < now)
  /\ tokenSet.id_token.iss = discovered
  /\ tokenSet.id_token.aud = "demo-client"

\* setup.js:174-230 : getClient answers; a valid ID token lets the request through, and
\* the page is sent (setup.js:397-460); otherwise client.userinfo is called with the
\* access token, and without one the entry is deleted; a discovery failure goes to the
\* catch branch (231-235)
RequireAuthGetClient(r, discoverOk) ==
  /\ hreq[r].pc = "getClient"
  /\ IF ~ hGetClientOk(discoverOk)
     THEN /\ hreq' = [hreq EXCEPT ![r].pc = "done", ![r].outcome = "redirect /auth"]
          /\ UNCHANGED <<hIssuer, hTokenStorage>>
     ELSE /\ hIssuer' = ISSUER
          /\ IF IdTokenValid(hreq[r].tokenSet, ISSUER)
             THEN /\ hreq' = [hreq EXCEPT ![r].pc = "done", ![r].outcome = "page id_token"]
                  /\ UNCHANGED hTokenStorage
             ELSE IF hreq[r].tokenSet.access_token # NoToken
             THEN /\ hreq' = [hreq EXCEPT ![r].pc = "userinfo"]
                  /\ UNCHANGED hTokenStorage
             ELSE /\ hTokenStorage' = Del(hTokenStorage, hreq[r].session)
                  /\ hreq' = [hreq EXCEPT ![r].pc = "done", ![r].outcome = "redirect /auth"]
  /\ UNCHANGED <<now, table, interactionErrors, uiVars, flowVars, jwtVars, hPkceStorage, hRandom, hStoredAt, hcb, hres>>

\* setup.js:214-230, 397-406 : client.userinfo answers; on success the request goes
\* through and the handler asks userinfo once more for the page; on failure the entry of
\* the session is deleted and the request is redirected to /auth
RequireAuthUserinfo(r, userinfoOk, pageOk) ==
  /\ hreq[r].pc = "userinfo"
  /\ IF userinfoOk
     THEN /\ hreq' = [hreq EXCEPT ![r].pc = "done",
                                  ![r].outcome = IF pageOk THEN "page access_token"
                                                 ELSE "redirect /auth"]
          /\ UNCHANGED <<hTokenStorage>>
     ELSE /\ hTokenStorage' = Del(hTokenStorage, hreq[r].session)
          /\ hreq' = [hreq EXCEPT ![r].pc = "done", ![r].outcome = "redirect /auth"]
  /\ UNCHANGED <<now, table, interactionErrors, uiVars, flowVars, jwtVars, hPkceStorage, hIssuer, hRandom, hStoredAt,
                 hcb, hres>>

HandoffApiTokenTakeOnce(sessionId) ==
  /\ hres' = [route |-> "3001/api/token", session |-> sessionId,
              status |-> ApiTokenResponse(hTokenStorage, sessionId).status,
              error |-> ApiTokenResponse(hTokenStorage, sessionId).error,
              token |-> ApiTokenResponse(hTokenStorage, sessionId).token]
  /\ hTokenStorage' = Del(hTokenStorage, sessionId)
  /\ UNCHANGED <<now, table, interactionErrors, uiVars, flowVars, jwtVars, hPkceStorage, hIssuer,
                 hRandom, hStoredAt, hcb, hreq>>

\* setup.js:463-484 : GET /api/token of the client service
HandoffApiToken(sessionId) ==
  /\ hres' = [route |-> "3001/api/token", session |-> sessionId,
              status |-> ApiTokenResponse(hTokenStorage, sessionId).status,
              error |-> ApiTokenResponse(hTokenStorage, sessionId).error,
              token |-> ApiTokenResponse(hTokenStorage, sessionId).token]
  /\ UNCHANGED <<now, table, interactionErrors, uiVars, flowVars, jwtVars, hPkceStorage, hTokenStorage, hIssuer,
                 hRandom, hStoredAt, hcb, hreq>>

\* setup.js:487-494 : GET /logout
Logout(sessionId) ==
  /\ hTokenStorage' = IF sessionId # 0 THEN Del(hTokenStorage, sessionId) ELSE hTokenStorage
  /\ hres' = [route |-> "3001/logout", session |-> sessionId, status |-> 302,
              error |-> None, token |-> NoToken]
  /\ UNCHANGED <<now, table, interactionErrors, uiVars, flowVars, jwtVars, hPkceStorage, hIssuer, hRandom, hStoredAt,
                 hcb, hreq>>

\* index.js:527-548 : GET /api/token of the provider service
ApiToken(sessionId) ==
  /\ hres' = [route |-> "3000/api/token", session |-> sessionId,
              status |-> ApiTokenResponse(tokenStorage, sessionId).status,
              error |-> ApiTokenResponse(tokenStorage, sessionId).error,
              token |-> ApiTokenResponse(tokenStorage, sessionId).token]
  /\ UNCHANGED <<now, table, interactionErrors, uiVars, flowVars, jwtVars, hPkceStorage, hTokenStorage, hIssuer,
                 hRandom, hStoredAt, hcb, hreq>>

SessionInputs == 0 .. MaxCallbacks

InitHandoffService ==
  /\ now = 0
  /\ table = "index.js"
  /\ mwClientId = "admin-ui"
  /\ interactionErrors = Empty
  /\ InitBrowser
  /\ InitFlow
  /\ InitJWT
  /\ InitHandoff

NextHandoff ==
  \/ Tick
  \/ \E ok \in BOOLEAN, st \in Fresh(hRandom.state), n \in Fresh(hRandom.nonce),
        v \in Fresh(hRandom.codeVerifier) : HandoffAuth(ok, st, n, v)
  \/ \E r \in Slots, st \in 0 .. MaxFlows, code \in {0, 1},
        e \in {None, "access_denied"} : HandoffCallbackStart(r, st, code, e)
  \/ \E r \in Slots, ok \in BOOLEAN, x \in BOOLEAN, sid \in Fresh(hRandom.session) :
        HandoffCallbackDone(r, ok, x, sid)
  \/ \E r \in PSlots, sid \in SessionInputs : RequireAuthStart(r, sid)
  \/ \E r \in PSlots, ok \in BOOLEAN : RequireAuthGetClient(r, ok)
  \/ \E r \in PSlots, ok \in BOOLEAN, pageOk \in BOOLEAN : RequireAuthUserinfo(r, ok, pageOk)
  \/ \E sid \in SessionInputs : HandoffApiToken(sid)
  \/ \E sid \in SessionInputs : Logout(sid)

SpecHandoff == InitHandoffService /\ [][NextHandoff]_vars

\* ============================== the lookups of both services
\* the provider service after one GET /client/auth for demo-client that was not answered
\* by a callback yet
PendingAuthorization ==
  /\ pkceStorage = Put(Empty, 1, [codeVerifier |-> 1, nonce |-> 1,
                                  redirectUrl |-> "http://localhost:3002/",
                                  clientId |-> "demo-client"])
  /\ flows = Put(Empty, 1, [client_id |-> "demo-client", code_challenge |-> codeChallenge(1),
                            nonce |-> 1, scope |-> {"openid", "profile", "email"}])
  /\ registeredAt = Put(Empty, 1, 0)
  /\ usedRandom = [state |-> {1}, nonce |-> {1}, codeVerifier |-> {1}]
  /\ tokenStorage = Empty
  /\ session = [accountId |-> None, grantId |-> 0]
  /\ interactions = Empty
  /\ grants = Empty
  /\ codes = Empty
  /\ cb = [r \in Slots |-> IdleCb]

\* the client service after one GET /auth and its completed GET /callback at time 0
SessionHandedOff ==
  /\ hPkceStorage = Empty
  /\ hTokenStorage = Put(Empty, 1, TokenSetAt(0))
  /\ hIssuer = ISSUER
  /\ hRandom = [state |-> {1}, nonce |-> {1}, codeVerifier |-> {1}, session |-> {1}]
  /\ hStoredAt = Put(Empty, 1, 0)
  /\ hcb = [r \in Slots |->
              IF r = 1
              THEN [pc |-> "done", state |-> 1, code |-> 1, error |-> None,
                    pkceData |-> [codeVerifier |-> 1, nonce |-> 1,
                                  redirectUrl |-> "http://localhost:3001/"],
                    outcome |-> "Completed", location |-> "http://localhost:3001/",
                    session |-> 1]
              ELSE IdleHcb]
  /\ hreq = [r \in PSlots |-> IdleHreq]
  /\ hres = NoAnswer

\* both services, each either just started or with one entry in its store
InitLookup ==
  /\ now \in {0, MaxTime}
  /\ table = "index.js"
  /\ mwClientId = "admin-ui"
  /\ interactionErrors = Empty
  /\ InitBrowser
  /\ InitFlow \/ PendingAuthorization
  /\ InitHandoff \/ SessionHandedOff
  /\ InitJWT

NextLookup ==
  \/ CallbackRequests({0} \cup Randoms)
  \/ \E sid \in SessionInputs : ApiToken(sid)
  \/ \E sid \in SessionInputs : HandoffApiToken(sid)
  \/ \E r \in PSlots, sid \in SessionInputs : RequireAuthStart(r, sid)
  \/ \E r \in PSlots, ok \in BOOLEAN : RequireAuthGetClient(r, ok)
  \/ \E r \in PSlots, ok \in BOOLEAN, pageOk \in BOOLEAN : RequireAuthUserinfo(r, ok, pageOk)

SpecLookup == InitLookup /\ [][NextLookup]_vars

\* ============================== GET /client/auth with a repeated random state
\* generators.random() (index.js:377-378) may return a value it has returned before; the
\* provider service with flows begun under any state, nonce and verifier, and one
\* callback request that consumes an entry
NextCollide ==
  \/ \E c \in ClientIdInputs, ok \in BOOLEAN, st \in Randoms, n \in Randoms, v \in Randoms :
        ClientAuth(c, ok, st, n, v)
  \/ \E st \in 0 .. MaxFlows, code \in {0} \cup Randoms : CallbackStart(1, st, code, None, None)
  \/ \E ok \in BOOLEAN : CallbackGetClient(1, ok)
  \/ \E ok \in BOOLEAN : CallbackExchange(1, ok)

SpecCollide == Init /\ [][NextCollide]_vars

\* ============================== GET /client/callback with further query parameters
\* index.js:406 : params = req.query holds whatever the request carries; besides state,
\* code and error the handler reads none of it and hands it all to client.callback
\* (468-476), which may refuse the response because of it
QueryInputs ==
  {None, "client_id=admin-ui", "redirect_uri=http://evil.example/", "redirect_url=http://evil.example/",
   "code_verifier=1", "nonce=1", "iss=http://evil.example"}

\* the provider service with one callback request that carries further parameters
NextQuery ==
  \/ ClientAuthStep
  \/ \E uid \in Randoms, p \in {"login", "consent"} : AuthorityAuth(uid, p)
  \/ \E uid \in Randoms, c \in Credentials, k \in BOOLEAN :
        InteractionLogin(uid, c[1], c[2], k)
  \/ \E uid \in Randoms, k \in BOOLEAN : InteractionConsent(uid, k)
  \/ \E st \in 0 .. MaxFlows, code \in CodeInputs, e \in {None, "access_denied"},
        q \in QueryInputs : CallbackStart(1, st, code, e, q)
  \/ \E ok \in BOOLEAN : CallbackGetClient(1, ok)
  \/ \E ok \in BOOLEAN : CallbackExchange(1, ok)

SpecQuery == Init /\ [][NextQuery]_vars

\* ============================== the interactions of the authority on their own
\* /client/auth, the authority's /auth and /interaction/:uid, with interactions that
\* expire and requests for interactions that are not there
NextInteraction ==
  \/ ClientAuthStep
  \/ \E uid \in Randoms, p \in {"login", "consent"} : AuthorityAuth(uid, p)
  \/ \E uid \in Randoms, c \in Credentials, k \in BOOLEAN :
        InteractionLogin(uid, c[1], c[2], k)
  \/ \E uid \in Randoms, k \in BOOLEAN : InteractionConsent(uid, k)
  \/ \E uid \in Randoms : InteractionExpire(uid)
  \/ \E uid \in Randoms : InteractionSessionNotFound(uid)

SpecInteraction == Init /\ [][NextInteraction]_vars

\* ======================================================= vue-auth-client (browser)
\* One page load of an application that uses createAuthPlugin (plugin.js), with its
\* config manager (auth/config.js), its redirect manager (auth/redirect.js) and the
\* response interceptor (interceptors/setup.js). Every action runs one task of the
\* event loop together with the promise continuations it releases.
redirectCooldown == 1   \* options.redirectCooldown, in clock units
configCacheTTL == 2     \* options.configCacheTTL, in clock units

serverVars == <<table, interactionErrors, flowVars, jwtVars, handoffVars>>

FetchedConfig == [config |-> "cfg", timestamp |-> now]

\* window.location.href has been assigned: the page is being left
Navigated == \E i \in DOMAIN redirects : redirects[i].state = "navigated"

\* auth/config.js : now - timestamp < configCacheTTL
CacheFresh(cached) == cached # NoConfig /\ now - cached.timestamp < configCacheTTL

\* auth/config.js loadConfig(force), up to its first await: the new state of the config
\* manager and what the call returns (a configuration value or the promise `returns`)
loadConfig(force) ==
  LET cache0   == IF force THEN NoConfig ELSE configCache
      session0 == IF force THEN NoConfig ELSE sessionConfig
      marker0  == IF force THEN 0 ELSE configLoadPromise
  IN
  IF marker0 # 0
  THEN [configCache |-> cache0, sessionConfig |-> session0, configLoadPromise |-> marker0,
        promises |-> promises, value |-> FALSE, returns |-> marker0]
  ELSE IF CacheFresh(cache0)
  THEN [configCache |-> cache0, sessionConfig |-> session0, configLoadPromise |-> 0,
        promises |-> promises, value |-> TRUE, returns |-> 0]
  ELSE IF CacheFresh(session0)
  THEN [configCache |-> session0, sessionConfig |-> session0, configLoadPromise |-> 0,
        promises |-> promises, value |-> TRUE, returns |-> 0]
  ELSE [configCache |-> NoConfig, sessionConfig |-> NoConfig,
        configLoadPromise |-> Len(promises) + 1,
        promises |-> Append(promises, "pending"), value |-> FALSE,
        returns |-> Len(promises) + 1]

\* interceptors/setup.js:37-54 : the 401 is rejected to the caller
Suppress401Never == locationQuery # None

Suppress401 ==
  \/ isRedirecting
  \/ now - last401Time < redirectCooldown
  \/ locationQuery # None

\* interceptors/setup.js:34-84 handle401Error, with removeToken of plugin.js and
\* redirectToAuth of auth/redirect.js up to the first await that does not resume at once
handle401Error ==
  IF Suppress401
  THEN [verdict |-> "reject", localToken |-> localToken, tokenRef |-> tokenRef,
        isRedirecting |-> isRedirecting, last401Time |-> last401Time,
        redirectTimers |-> redirectTimers, redirects |-> redirects,
        configCache |-> configCache, sessionConfig |-> sessionConfig,
        configLoadPromise |-> configLoadPromise, promises |-> promises]
  ELSE LET lc == loadConfig(FALSE) IN
       [verdict |-> "never", localToken |-> None, tokenRef |-> None,
        isRedirecting |-> TRUE, last401Time |-> now,
        redirectTimers |-> redirectTimers \cup {now + redirectCooldown},
        redirects |-> Append(redirects,
                             [at |-> now, promise |-> lc.returns,
                              state |-> IF lc.value THEN "navigated" ELSE "loading"]),
        configCache |-> lc.configCache, sessionConfig |-> lc.sessionConfig,
        configLoadPromise |-> lc.configLoadPromise, promises |-> lc.promises]

\* the response interceptor (setup.js:86-94): a response passes, a 401 goes to
\* handle401Error, any other error is rejected to the caller
OnResponseError(status) ==
  IF status = 401 THEN handle401Error
  ELSE [verdict |-> "reject", localToken |-> localToken, tokenRef |-> tokenRef,
        isRedirecting |-> isRedirecting, last401Time |-> last401Time,
        redirectTimers |-> redirectTimers, redirects |-> redirects,
        configCache |-> configCache, sessionConfig |-> sessionConfig,
        configLoadPromise |-> configLoadPromise, promises |-> promises]

Statuses == {200, 401, 500}

\* setup.js:75-77 : setTimeout(() => { isRedirecting = false }, redirectCooldown)
RedirectTimerFire(due) ==
  /\ ~ Navigated
  /\ due \in redirectTimers
  /\ due <= now
  /\ isRedirecting' = FALSE
  /\ redirectTimers' = redirectTimers \ {due}
  /\ UNCHANGED <<now, serverVars, localToken, locationQuery, tokenRef, currentUser, configRef,
                 isLoadingConfig, isVerifyingAuth, isLoadingUser, configCache, sessionConfig,
                 configLoadPromise, promises, onConfigErrorCalls, last401Time, redirects, calls>>

\* a call slot may be used once, and the slots are used in order
FreeSlot(c) ==
  /\ ~ Navigated
  /\ c \in CallSlots
  /\ calls[c].pc = "idle"
  /\ \A d \in CallSlots : d < c => calls[d].pc # "idle"

\* plugin.js:50-62 : loadConfig(force) of the plugin
PluginLoadConfig(c, force) ==
  LET lc == loadConfig(force) IN
  /\ FreeSlot(c)
  /\ Len(lc.promises) <= MaxLoads
  /\ configCache' = lc.configCache
  /\ sessionConfig' = lc.sessionConfig
  /\ configLoadPromise' = lc.configLoadPromise
  /\ promises' = lc.promises
  /\ IF lc.value
     THEN /\ configRef' = "cfg"
          /\ isLoadingConfig' = FALSE
          /\ calls' = [calls EXCEPT ![c] = [op |-> "loadConfig", pc |-> "done",
                                            promise |-> 0,
                                            result |-> Result("config", None, 0)]]
     ELSE /\ configRef' = configRef
          /\ isLoadingConfig' = TRUE
          /\ calls' = [calls EXCEPT ![c] = [op |-> "loadConfig", pc |-> "await",
                                            promise |-> lc.returns, result |-> NoResult]]
  /\ UNCHANGED <<now, serverVars, localToken, locationQuery, tokenRef, currentUser,
                 isVerifyingAuth, isLoadingUser, onConfigErrorCalls, isRedirecting,
                 last401Time, redirectTimers, redirects>>

\* auth/config.js : the backend request of promise p is answered; the try / catch /
\* finally of loadConfig runs, then the callers that await the promise continue
\* (plugin.js:53-61, 230-235 and auth/redirect.js redirectToAuth)
ConfigResponse(p, status) ==
  /\ ~ Navigated
  /\ p \in DOMAIN promises
  /\ promises[p] = "pending"
  /\ LET h == OnResponseError(status)
         settle == IF status = 200 THEN "fulfilled"
                   ELSE IF h.verdict = "never" THEN "suspended" ELSE "rejected"
         waiting == { c \in AllCalls : calls[c].pc = "await" /\ calls[c].promise = p }
         settled == settle # "suspended"
     IN
     /\ Len(h.promises) <= MaxLoads
     /\ Len(h.redirects) <= MaxRedirects
     /\ promises' = [h.promises EXCEPT ![p] = settle]
     /\ configCache' = IF settle = "fulfilled" THEN FetchedConfig ELSE h.configCache
     /\ sessionConfig' = IF settle = "fulfilled" THEN FetchedConfig ELSE h.sessionConfig
     /\ configLoadPromise' = IF settled THEN 0 ELSE h.configLoadPromise
     /\ onConfigErrorCalls' = onConfigErrorCalls
           + (IF settle = "rejected" THEN 1 ELSE 0)
           + (IF settle = "rejected" /\ 0 \in waiting THEN 1 ELSE 0)
     /\ calls' = [c \in AllCalls |->
                    IF c \in waiting /\ settled
                    THEN [calls[c] EXCEPT !.pc = "done",
                            !.result = IF settle = "fulfilled"
                                       THEN Result("config", None, 0)
                                       ELSE Result(None, None, status)]
                    ELSE calls[c]]
     /\ configRef' = IF settle = "fulfilled" /\ waiting # {} THEN "cfg" ELSE configRef
     /\ isLoadingConfig' = IF settled /\ waiting # {} THEN FALSE ELSE isLoadingConfig
     /\ redirects' = [i \in DOMAIN h.redirects |->
                        IF settled /\ h.redirects[i].promise = p
                                   /\ h.redirects[i].state = "loading"
                        THEN [h.redirects[i] EXCEPT
                                !.state = IF settle = "fulfilled" THEN "navigated" ELSE "failed"]
                        ELSE h.redirects[i]]
     /\ localToken' = h.localToken
     /\ tokenRef' = h.tokenRef
     /\ isRedirecting' = h.isRedirecting
     /\ last401Time' = h.last401Time
     /\ redirectTimers' = h.redirectTimers
  /\ UNCHANGED <<now, serverVars, locationQuery, currentUser, isVerifyingAuth, isLoadingUser>>

\* plugin.js:65-87 verifyAuth, entered with the token that localStorage holds: without a
\* token it returns false at once, with one it sends GET /user. `op` is the operation
\* of the plugin that runs it (verifyAuth itself or initialize).
StartVerify(c, op, stored) ==
  /\ tokenRef' = stored
  /\ IF stored = None
     THEN /\ currentUser' = None
          /\ isVerifyingAuth' = FALSE
          /\ calls' = [calls EXCEPT ![c] = [op |-> op, pc |-> "done", promise |-> 0,
                                            result |-> Result("false", None, 0)]]
     ELSE /\ currentUser' = currentUser
          /\ isVerifyingAuth' = TRUE
          /\ calls' = [calls EXCEPT ![c] = [op |-> op, pc |-> "request", promise |-> 0,
                                            result |-> NoResult]]

VerifyAuth(c) ==
  /\ FreeSlot(c)
  /\ StartVerify(c, "verifyAuth", localToken)
  /\ UNCHANGED <<now, serverVars, localToken, locationQuery, configRef, isLoadingConfig,
                 isLoadingUser, configCache, sessionConfig, configLoadPromise, promises,
                 onConfigErrorCalls, isRedirecting, last401Time, redirectTimers, redirects>>

\* plugin.js:90-103 fetchUser
FetchUser(c) ==
  /\ FreeSlot(c)
  /\ isLoadingUser' = TRUE
  /\ calls' = [calls EXCEPT ![c] = [op |-> "fetchUser", pc |-> "request", promise |-> 0,
                                    result |-> NoResult]]
  /\ UNCHANGED <<now, serverVars, localToken, locationQuery, tokenRef, currentUser, configRef,
                 isLoadingConfig, isVerifyingAuth, configCache, sessionConfig,
                 configLoadPromise, promises, onConfigErrorCalls, isRedirecting, last401Time,
                 redirectTimers, redirects>>

\* plugin.js:120-126 with auth/redirect.js handleTokenFromQuery: the token of the URL is
\* stored and the URL is cleaned
TokenAfterQuery == IF locationQuery # None THEN locationQuery ELSE localToken

HandleTokenFromQuery ==
  /\ ~ Navigated
  /\ locationQuery # None
  /\ localToken' = locationQuery
  /\ tokenRef' = locationQuery
  /\ locationQuery' = None
  /\ UNCHANGED <<now, serverVars, currentUser, configRef, isLoadingConfig, isVerifyingAuth,
                 isLoadingUser, configCache, sessionConfig, configLoadPromise, promises,
                 onConfigErrorCalls, isRedirecting, last401Time, redirectTimers, redirects,
                 calls>>

\* plugin.js:135-167 initialize: waits while the configuration is loading, then
\* handleTokenFromQuery and verifyAuth
InitializeProceed(c) ==
  /\ localToken' = TokenAfterQuery
  /\ locationQuery' = None
  /\ StartVerify(c, "initialize", TokenAfterQuery)
  /\ UNCHANGED <<now, serverVars, configRef, isLoadingConfig, isLoadingUser, configCache,
                 sessionConfig, configLoadPromise, promises, onConfigErrorCalls,
                 isRedirecting, last401Time, redirectTimers, redirects>>

Initialize(c) ==
  /\ FreeSlot(c)
  /\ IF isLoadingConfig
     THEN /\ calls' = [calls EXCEPT ![c] = [op |-> "initialize", pc |-> "waitConfig",
                                            promise |-> 0, result |-> NoResult]]
          /\ UNCHANGED <<now, serverVars, localToken, locationQuery, tokenRef, currentUser,
                         configRef, isLoadingConfig, isVerifyingAuth, isLoadingUser,
                         configCache, sessionConfig, configLoadPromise, promises,
                         onConfigErrorCalls, isRedirecting, last401Time, redirectTimers,
                         redirects>>
     ELSE InitializeProceed(c)

\* plugin.js:138-146 : the watcher of isLoadingConfig sees it false
InitializeResume(c) ==
  /\ ~ Navigated
  /\ calls[c].pc = "waitConfig"
  /\ ~ isLoadingConfig
  /\ InitializeProceed(c)

\* the answer to GET /user of call c arrives (plugin.js:74-82, 93-102, 152-166)
UserResponse(c, status) ==
  /\ ~ Navigated
  /\ calls[c].pc = "request"
  /\ LET h == OnResponseError(status)
         op == calls[c].op
         outcome == IF status = 200 THEN "fulfilled"
                    ELSE IF h.verdict = "never" THEN "suspended" ELSE "rejected"
     IN
     /\ Len(h.promises) <= MaxLoads
     /\ Len(h.redirects) <= MaxRedirects
     /\ currentUser' = CASE outcome = "fulfilled" -> "user1"
                          [] outcome = "rejected"  -> None
                          [] OTHER                 -> currentUser
     /\ isVerifyingAuth' = IF outcome # "suspended" /\ op \in {"verifyAuth", "initialize"}
                           THEN FALSE ELSE isVerifyingAuth
     /\ isLoadingUser' = IF outcome # "suspended" /\ op = "fetchUser"
                         THEN FALSE ELSE isLoadingUser
     /\ calls' = [calls EXCEPT ![c] =
          CASE outcome = "fulfilled" ->
                 [@ EXCEPT !.pc = "done", !.result = Result("true", "user1", 0)]
            [] outcome = "rejected" ->
                 [@ EXCEPT !.pc = "done",
                           !.result = Result(IF op = "initialize" THEN "false" ELSE None,
                                             None, status)]
            [] OTHER -> [@ EXCEPT !.pc = "suspended"]]
     /\ localToken' = h.localToken
     /\ tokenRef' = h.tokenRef
     /\ isRedirecting' = h.isRedirecting
     /\ last401Time' = h.last401Time
     /\ redirectTimers' = h.redirectTimers
     /\ redirects' = h.redirects
     /\ configCache' = h.configCache
     /\ sessionConfig' = h.sessionConfig
     /\ configLoadPromise' = h.configLoadPromise
     /\ promises' = h.promises
  /\ UNCHANGED <<now, serverVars, locationQuery, configRef, isLoadingConfig, onConfigErrorCalls>>

\* plugin.js:113-117 logout
LogoutKeepsUser ==
  /\ ~ Navigated
  /\ localToken' = None
  /\ tokenRef' = None
  /\ UNCHANGED <<now, serverVars, currentUser, locationQuery, configRef, isLoadingConfig,
                 isVerifyingAuth, isLoadingUser, configCache, sessionConfig, configLoadPromise,
                 promises, onConfigErrorCalls, isRedirecting, last401Time, redirectTimers,
                 redirects, calls>>

PluginLogout ==
  /\ ~ Navigated
  /\ localToken' = None
  /\ tokenRef' = None
  /\ currentUser' = None
  /\ UNCHANGED <<now, serverVars, locationQuery, configRef, isLoadingConfig, isVerifyingAuth,
                 isLoadingUser, configCache, sessionConfig, configLoadPromise, promises,
                 onConfigErrorCalls, isRedirecting, last401Time, redirectTimers, redirects,
                 calls>>

\* plugin.js:129-132 clearConfigCache
ClearConfigCache ==
  /\ ~ Navigated
  /\ configCache' = NoConfig
  /\ configLoadPromise' = 0
  /\ sessionConfig' = NoConfig
  /\ configRef' = None
  /\ UNCHANGED <<now, serverVars, localToken, locationQuery, tokenRef, currentUser,
                 isLoadingConfig, isVerifyingAuth, isLoadingUser, promises,
                 onConfigErrorCalls, isRedirecting, last401Time, redirectTimers, redirects,
                 calls>>

\* plugin.js:10-235 : the state after createAuthPlugin(options) has returned and the
\* promise continuations it released have run. token.value is the stored token;
\* loadConfig() has either found the configuration of an earlier page load in
\* sessionStorage or has its backend request in flight.
InitPlugin ==
  /\ now = redirectCooldown
  /\ table = "index.js"
  /\ mwClientId = "admin-ui"
  /\ interactionErrors = Empty
  /\ InitFlow
  /\ InitJWT
  /\ InitHandoff
  /\ localToken \in {None, "jwt"}
  /\ locationQuery \in {None, "jwt2"}
  /\ tokenRef = localToken
  /\ currentUser = None
  /\ isVerifyingAuth = FALSE
  /\ isLoadingUser = FALSE
  /\ onConfigErrorCalls = 0
  /\ isRedirecting = FALSE
  /\ last401Time = 0
  /\ redirectTimers = {}
  /\ redirects = << >>
  /\ sessionConfig \in {NoConfig, [config |-> "cfg", timestamp |-> now]}
  /\ IF sessionConfig = NoConfig
     THEN /\ configCache = NoConfig
          /\ configRef = None
          /\ isLoadingConfig = TRUE
          /\ configLoadPromise = 1
          /\ promises = << "pending" >>
          /\ calls = [c \in AllCalls |->
                        IF c = 0 THEN [op |-> "loadConfig", pc |-> "await", promise |-> 1,
                                       result |-> NoResult]
                        ELSE IdleCall]
     ELSE /\ configCache = sessionConfig
          /\ configRef = "cfg"
          /\ isLoadingConfig = FALSE
          /\ configLoadPromise = 0
          /\ promises = << >>
          /\ calls = [c \in AllCalls |->
                        IF c = 0 THEN [op |-> "loadConfig", pc |-> "done", promise |-> 0,
                                       result |-> Result("config", None, 0)]
                        ELSE IdleCall]

NextPlugin ==
  \/ Tick
  \/ \E due \in 0 .. MaxTime + redirectCooldown : RedirectTimerFire(due)
  \/ \E c \in CallSlots, force \in BOOLEAN : PluginLoadConfig(c, force)
  \/ \E p \in 1 .. MaxLoads, status \in Statuses : ConfigResponse(p, status)
  \/ \E c \in CallSlots : VerifyAuth(c)
  \/ \E c \in CallSlots : FetchUser(c)
  \/ \E c \in CallSlots : Initialize(c)
  \/ \E c \in CallSlots : InitializeResume(c)
  \/ \E c \in CallSlots, status \in Statuses : UserResponse(c, status)
  \/ HandleTokenFromQuery
  \/ PluginLogout
  \/ ClearConfigCache

SpecPlugin == InitPlugin /\ [][NextPlugin]_vars

\* the backend answers every request, the watcher of isLoadingConfig and the timers run
SpecPluginLive ==
  /\ SpecPlugin
  /\ WF_vars(\E c \in CallSlots, status \in Statuses : UserResponse(c, status))
  /\ WF_vars(\E p \in 1 .. MaxLoads, status \in Statuses : ConfigResponse(p, status))
  /\ WF_vars(\E c \in CallSlots : InitializeResume(c))
  /\ WF_vars(\E due \in 0 .. MaxTime + redirectCooldown : RedirectTimerFire(due))

\* =================================================================== claims
\* C1: two callbacks presenting the same state never both find the correlation entry,
\* and at most one token exchange is issued for one authorization attempt (the other
\* callback observes "PKCE data not found or expired").
C1_OneExchangePerState ==
  \A r1, r2 \in Slots :
    (r1 # r2 /\ cb[r1].state # 0 /\ cb[r1].state = cb[r2].state) =>
      /\ ~ (cb[r1].found /\ cb[r2].found)
      /\ ~ (cb[r1].exchanged /\ cb[r2].exchanged)

\* C2: once a callback that found the entry of a state has finished, whatever its
\* outcome, the entry is absent; every callback that starts later with that state gets
\* the miss outcome; a stored entry is never modified between creation and deletion.
C2_ConsumedOnce ==
  /\ [](\A r \in Slots :
          (cb[r].pc = "done" /\ cb[r].found) => cb[r].state \notin DOMAIN pkceStorage)
  /\ [][ /\ \A r1, r2 \in Slots :
              ( /\ cb[r1].pc = "done" /\ cb[r1].found
                /\ cb[r2].pc = "idle" /\ cb'[r2].pc # "idle"
                /\ cb'[r2].state = cb[r1].state )
              => cb'[r2].outcome = "UnknownOrExpiredState"
         /\ \A s \in (DOMAIN pkceStorage) \cap (DOMAIN pkceStorage') :
              pkceStorage'[s] = pkceStorage[s] ]_vars

\* a callback found and consumed the entry (here by a failed exchange or a success), and
\* a second callback with the same state was answered with the miss outcome
C2_Witness ==
  /\ cb[1].pc = "done" /\ cb[1].found /\ cb[1].exchanged
  /\ cb[2].pc = "done" /\ cb[2].state = cb[1].state
  /\ cb[2].outcome = "UnknownOrExpiredState"

\* C5: an account without a role for the requesting client never reaches grant
\* issuance: no authorization code is issued for such an (account, client) pair and no
\* grant is saved with role metadata for a client the account has no role in.
C5_NoGrantWithoutRole ==
  /\ \A uid \in DOMAIN codes :
       userAppRoles(table, codes[uid].accountId, codes[uid].clientId) # NULL
  /\ \A g \in DOMAIN grants : \A c \in DOMAIN grants[g].resourceServers :
       grants[g].resourceServers[c] # NULL

\* C6: a completed callback of the flow begun for client c, with the code issued to
\* account a in that flow, hands the application registered for c a token whose subject
\* is a and whose role is userAppRoles[a][c].
C6_RoundTripRole ==
  \A r \in Slots :
    cb[r].outcome = "Completed" =>
      LET s == cb[r].state
          a == codes[cb[r].code].accountId
          c == flows[s].client_id
      IN /\ cb[r].code = s
         /\ cb[r].token.sub = a
         /\ cb[r].location = clientRedirectUrls(table, c)
         /\ cb[r].token.role = userAppRoles(table, a, c)

\* user1 completed the round trip for app2: the role is the one for that client
\* ("viewer"), not the one user1 has in demo-client ("user")
C6_Witness ==
  \E r \in Slots :
    /\ cb[r].outcome = "Completed"
    /\ flows[cb[r].state].client_id = "app2"
    /\ cb[r].token.sub = "user1"
    /\ cb[r].token.role = "viewer"
    /\ cb[r].location = "http://localhost:3001/"

\* C10: a correlation entry that is never presented to the callback is removed once it
\* is older than the TTL.
C10_EntryExpires ==
  \A s \in DOMAIN pkceStorage : now - registeredAt[s] <= PKCE_TTL

\* ---- the validator claims, checked under SpecJWT
Presented(r) == vreq[r].auth >= 1

Decoded(t) == Tokens[t].segs = 3 /\ Tokens[t].payload = "json"

SameNonce(t1, t2) == Tokens[t1].nonce = Tokens[t2].nonce

\* C3: while the replay guard holds the entry of an accepted token, no other token with
\* the same nonce and a different sub or iat is accepted and recorded: any two accepted
\* tokens with the same nonce whose entries are both recorded have the same sub and iat.
C3_SameNonceRejected ==
  \A t1, t2 \in acceptedTokens :
    ( /\ KeyOf(t1) \in DOMAIN usedTokens
      /\ KeyOf(t2) \in DOMAIN usedTokens
      /\ SameNonce(t1, t2) )
    => (Tokens[t1].sub = Tokens[t2].sub /\ Tokens[t1].iat = Tokens[t2].iat)

\* C4: a request presenting a token that validateJWT accepted before the request began,
\* and that finishes while the token's replay guard entry is unexpired and the token has
\* not expired, is accepted (next() is called), whatever happened in between.
C4_IdempotentReuse ==
  [][ \A r \in VSlots :
        ( /\ vreq[r].pc # "done"
          /\ vreq'[r].pc = "done"
          /\ vreq[r].late
          /\ KeyOf(vreq[r].auth) \in DOMAIN usedTokens
          /\ now - usedTokens[KeyOf(vreq[r].auth)].timestamp < TOKEN_TTL
          /\ Tokens[vreq[r].auth].exp > now )
        => vreq'[r].outcome = "next" ]_vars

C4_Witness ==
  \E r \in VSlots :
    /\ vreq[r].pc = "done"
    /\ vreq[r].late
    /\ vreq[r].outcome = "next"
    /\ KeyOf(vreq[r].auth) \in DOMAIN usedTokens
    /\ usedTokens[KeyOf(vreq[r].auth)].timestamp < now

\* C7: on a request whose token decodes and carries an iss other than the discovered
\* issuer, or an aud that does not contain the client id the middleware was created
\* with, jwtVerify is never called.
C7_NoVerifyOnWrongIssOrAud ==
  \A r \in VSlots :
    ( /\ Presented(r)
      /\ Decoded(vreq[r].auth)
      /\ \/ Tokens[vreq[r].auth].iss # ISSUER
         \/ \A i \in 1 .. Len(Tokens[vreq[r].auth].aud.vals) :
              Tokens[vreq[r].auth].aud.vals[i] # mwClientId )
    => ~ vreq[r].verifyCalled

\* C8: a request that came to the audience stage (its token decodes and carries the
\* discovered issuer) is rejected with invalid_audience exactly when the aud of its token
\* does not contain the client id the middleware was created with.
C8_AudienceIsConfiguredClient ==
  \A r \in VSlots :
    ( /\ Presented(r)
      /\ vreq[r].pc \in {"verify", "done"}
      /\ vreq[r].outcome # "validation_error"
      /\ Decoded(vreq[r].auth)
      /\ Tokens[vreq[r].auth].iss = ISSUER )
    => ( vreq[r].outcome = "invalid_audience"
         <=> \A i \in 1 .. Len(Tokens[vreq[r].auth].aud.vals) :
               Tokens[vreq[r].auth].aud.vals[i] # mwClientId )

\* C9: a request whose bearer token does not split into exactly three non-empty segments
\* and that got past getClient ends with invalid_token, and jwtVerify is not called for it.
C9_ThreeNonEmptySegments ==
  \A r \in VSlots :
    ( /\ Presented(r)
      /\ vreq[r].pc \in {"verify", "done"}
      /\ vreq[r].outcome # "validation_error"
      /\ \/ Tokens[vreq[r].auth].segs # 3
         \/ Tokens[vreq[r].auth].header = ""
         \/ Tokens[vreq[r].auth].payload = ""
         \/ Tokens[vreq[r].auth].signature = "" )
    => (vreq[r].outcome = "invalid_token" /\ ~ vreq[r].verifyCalled)

\* ---- GET /client/callback: order of the checks
Failures == {"MissingState", "UnknownOrExpiredState", "AuthorityError", "MissingCode",
             "ExchangeFailed", "MissingSubject"}

\* C11: a callback is answered with the outcome of the first failing check in the order
\* state present, entry found, no error parameter, code present, exchange succeeds, sub
\* non-empty; every failure has a page of its own with the "Try again" link to
\* /client/auth; the token exchange is started only after checks 1-4 have passed.
C11_FirstFailingCheck ==
  /\ [](\A r \in Slots :
          /\ cb[r].outcome \in Failures =>
               /\ ErrorPage(cb[r].outcome).retry = "/client/auth"
               /\ \A o \in Failures \ {cb[r].outcome} : ErrorPage(o) # ErrorPage(cb[r].outcome)
          /\ cb[r].exchanged =>
               (cb[r].state # 0 /\ cb[r].found /\ cb[r].error = None /\ cb[r].code # 0))
  /\ [][ \A r \in Slots :
           /\ (cb[r].pc = "idle" /\ cb'[r].pc # "idle") =>
                LET q == cb'[r] IN
                CASE q.state = 0 -> q.outcome = "MissingState"
                  [] q.state # 0 /\ q.state \notin DOMAIN pkceStorage ->
                       q.outcome = "UnknownOrExpiredState" /\ ~ q.found
                  [] q.state \in DOMAIN pkceStorage /\ q.error # None ->
                       q.outcome = "AuthorityError"
                  [] q.state \in DOMAIN pkceStorage /\ q.error = None /\ q.code = 0 ->
                       q.outcome = "MissingCode"
                  [] OTHER -> q.pc = "getClient" /\ q.found /\ ~ q.exchanged
           /\ (cb[r].pc \in {"getClient", "exchange"} /\ cb'[r].pc = "done") =>
                cb'[r].outcome \in {"ExchangeFailed", "MissingSubject", "Completed"}
           /\ (cb[r].pc = "exchange" /\ cb'[r].pc = "done") =>
                LET d == cb[r].pkceData
                    ok == CodeAccepted(cb[r].code, d.clientId, d.codeVerifier)
                IN /\ ~ ok => cb'[r].outcome = "ExchangeFailed"
                   /\ cb'[r].outcome = "Completed" => (ok /\ cb'[r].token.sub # None)
         ]_vars

\* the error parameter and a missing code came together and the answer was the page of
\* the error parameter; another callback passed checks 1-4 and failed in the exchange
C11_Witness ==
  \E r1, r2 \in Slots :
    /\ cb[r1].pc = "done" /\ cb[r1].error # None /\ cb[r1].code = 0
    /\ cb[r1].outcome = "AuthorityError"
    /\ cb[r2].pc = "done" /\ cb[r2].exchanged /\ cb[r2].outcome = "ExchangeFailed"

\* C12: a completed callback on the provider has stored the token set under a session id,
\* has redirected with that id in the `session` query parameter, and GET /api/token for
\* that id on the provider answers with the issued token.
C12_SessionHandoffOnProvider ==
  \A r \in Slots :
    cb[r].outcome = "Completed" =>
      /\ "session" \in DOMAIN RedirectQuery(r)
      /\ RedirectQuery(r).session \in DOMAIN tokenStorage
      /\ ApiTokenResponse(tokenStorage, RedirectQuery(r).session).status = 200
      /\ ApiTokenResponse(tokenStorage, RedirectQuery(r).session).token = cb[r].token

\* ---- the session handoff store, checked under SpecHandoff
\* C13: GET /api/token answers a live session id with the token stored for it and a
\* session id without entry with 'session not found or expired', and changes nothing;
\* the token set of an entry never changes; GET /logout removes the entry of its session
\* id and only that one; a removed session id never gets an entry again.
C13_ReadKeepsLogoutRemoves ==
  [][ /\ (hres' # hres /\ hres'.route = "3001/api/token") =>
           /\ hTokenStorage' = hTokenStorage
           /\ hres'.session \in DOMAIN hTokenStorage =>
                (hres'.status = 200 /\ hres'.token = hTokenStorage[hres'.session].id_token)
           /\ (hres'.session # 0 /\ hres'.session \notin DOMAIN hTokenStorage) =>
                (hres'.status = 404 /\ hres'.error = "session not found or expired")
      /\ (hres' # hres /\ hres'.route = "3001/logout") =>
           /\ hres'.session \notin DOMAIN hTokenStorage'
           /\ DOMAIN hTokenStorage' = (DOMAIN hTokenStorage) \ {hres'.session}
      /\ \A s \in (DOMAIN hTokenStorage) \cap (DOMAIN hTokenStorage') :
           hTokenStorage'[s] = hTokenStorage[s]
      /\ \A s \in hRandom.session :
           s \notin DOMAIN hTokenStorage => s \notin DOMAIN hTokenStorage'
    ]_vars

\* two sessions were handed off, one was logged out and the other one was then read:
\* the read returned its token and the entry is still there
C13_Witness ==
  \E s1, s2 \in hRandom.session :
    /\ s1 # s2
    /\ s1 \notin DOMAIN hTokenStorage
    /\ s2 \in DOMAIN hTokenStorage
    /\ hres.route = "3001/api/token" /\ hres.session = s2 /\ hres.status = 200
    /\ hres.token = hTokenStorage[s2].id_token

\* C14: a session handoff entry that is never logged out is removed once it is older than
\* the TTL.
C14_SessionExpires ==
  \A s \in DOMAIN hTokenStorage : now - hStoredAt[s] <= SESSION_TTL

\* ---- lookups, checked under SpecLookup
\* the populated initial states of SpecLookup are states the services reach: TLC refutes
\* the first of these under Spec and the second under SpecHandoff
NeverPendingAuthorization == ~ (now = 0 /\ PendingAuthorization)

NeverSessionHandedOff == ~ (now = 0 /\ SessionHandedOff)

Stores == <<pkceStorage, tokenStorage, hPkceStorage, hTokenStorage>>

\* C15: a callback presenting a state without correlation entry is answered with the 400
\* page of UnknownOrExpiredState; GET /api/token (of either service) presenting a session
\* id without entry is answered 404 'session not found or expired'; a protected request
\* presenting a session id without entry is redirected to /auth; none of them changes a
\* store.
C15_MissIsNotFound ==
  [][ /\ \A r \in Slots :
           ( /\ cb[r].pc = "idle" /\ cb'[r].pc # "idle"
             /\ cb'[r].state # 0 /\ cb'[r].state \notin DOMAIN pkceStorage ) =>
             /\ cb'[r].pc = "done"
             /\ cb'[r].outcome = "UnknownOrExpiredState"
             /\ ErrorPage(cb'[r].outcome).status = 400
             /\ Stores' = Stores
      /\ ( /\ hres' # hres /\ hres'.session # 0
           /\ \/ hres'.route = "3000/api/token" /\ hres'.session \notin DOMAIN tokenStorage
              \/ hres'.route = "3001/api/token" /\ hres'.session \notin DOMAIN hTokenStorage ) =>
           /\ hres'.status = 404
           /\ hres'.error = "session not found or expired"
           /\ Stores' = Stores
      /\ \A r \in PSlots :
           ( /\ hreq[r].pc = "idle" /\ hreq'[r].pc # "idle"
             /\ hreq'[r].session \notin DOMAIN hTokenStorage ) =>
             /\ hreq'[r].pc = "done"
             /\ hreq'[r].outcome = "redirect /auth"
             /\ Stores' = Stores
    ]_vars

\* with an entry in each store, a callback, a token retrieval and a protected request
\* have each presented another key and got the not-found answer
C15_Witness ==
  /\ pkceStorage # Empty /\ hTokenStorage # Empty
  /\ \E r \in Slots : cb[r].outcome = "UnknownOrExpiredState"
  /\ \E r \in PSlots : hreq[r].outcome = "redirect /auth" /\ hreq[r].session = 2
  /\ hres.status = 404 /\ hres.session = 2

\* C16: while the replay guard entry of an accepted token is there and its lifetime of
\* TOKEN_TTL since it was recorded has not ended, the token has not expired.
C16_EntryWithinTokenValidity ==
  \A t \in acceptedTokens :
    ( /\ KeyOf(t) \in DOMAIN usedTokens
      /\ now - usedTokens[KeyOf(t)].timestamp < TOKEN_TTL )
    => Tokens[t].exp > now

Roles == {"admin", "user", "viewer"}

\* C17: requireRole(...allowedRoles) calls next() exactly when req.user is set and its
\* role is one of allowedRoles, answers 401 without req.user and 403 otherwise; the
\* handler of /api/admin runs only after validateJWT accepted a token with role admin, the
\* handlers of /api/data only for role admin or user.
C17_RoleGate ==
  /\ \A allowed \in SUBSET Roles :
       /\ requireRole(allowed, NoUser).status = 401
       /\ \A r \in VSlots :
            vreq[r].outcome = "next" =>
              /\ vreq[r].user # NoUser
              /\ requireRole(allowed, vreq[r].user).error = "next"
                   <=> vreq[r].user.role \in allowed
              /\ vreq[r].user.role \notin allowed
                   => requireRole(allowed, vreq[r].user).status = 403
  /\ \A r \in VSlots :
       /\ RouteAnswer("/api/admin", vreq[r]).error = "handler"
            <=> (vreq[r].outcome = "next" /\ Tokens[vreq[r].auth].role = "admin")
       /\ RouteAnswer("/api/data", vreq[r]).error = "handler"
            <=> (vreq[r].outcome = "next" /\ Tokens[vreq[r].auth].role \in {"admin", "user"})

\* a token with role user was accepted: /api/data runs its handler, /api/admin answers 403
C17_Witness ==
  \E r \in VSlots :
    /\ vreq[r].outcome = "next"
    /\ vreq[r].user.role = "user"
    /\ RouteAnswer("/api/data", vreq[r]).error = "handler"
    /\ RouteAnswer("/api/admin", vreq[r]).status = 403

RoleLess(t) == Tokens[t].role \in {NULL, None}

\* C18: claims materialization for an account without a role for the client returns the
\* complete claims set with role null; a request whose token has a null or absent role and
\* is valid otherwise is passed on by validateJWT with req.user attached, and requireRole
\* answers it with 403 for every set of allowed roles.
C18_NullRoleIsNotAFailure ==
  /\ [](\A u \in users, c \in {a.client_id : a \in applications(table)} \cup {None} :
          LET cl == claims(u.id, c, FALSE, NewGrant(None, None)) IN
          /\ cl.sub = u.id /\ cl.name = u.name /\ cl.email = u.email
          /\ cl.email_verified = TRUE
          /\ (c = None \/ userAppRoles(table, u.id, c) = NULL) => cl.role = NULL)
  /\ [][ \A r \in VSlots :
           ( /\ vreq[r].pc = "verify" /\ vreq'[r].pc = "done"
             /\ RoleLess(vreq[r].auth)
             /\ jwtVerifyOk(vreq[r].auth, jwks)
             /\ NonceOk(Tokens[vreq[r].auth].nonce) )
           => /\ vreq'[r].outcome = "next"
              /\ vreq'[r].user # NoUser
              /\ vreq'[r].user.sub = Tokens[vreq[r].auth].sub[1]
              /\ RouteAnswer("/api/user", vreq'[r]).error = "handler"
              /\ \A allowed \in SUBSET Roles :
                   requireRole(allowed, vreq'[r].user).status = 403 ]_vars

\* tokens with a null role and with no role claim were both passed on
C18_Witness ==
  \E r1, r2 \in VSlots :
    /\ vreq[r1].outcome = "next" /\ Tokens[vreq[r1].auth].role = NULL
    /\ vreq[r2].outcome = "next" /\ Tokens[vreq[r2].auth].role = None
    /\ RouteAnswer("/api/data", vreq[r1]).status = 403

\* C19: a request without Authorization header, with a header that does not start with
\* "Bearer ", or with an empty token is answered with `unauthorized`.
C19_NoTokenIsUnauthorized ==
  \A r \in VSlots :
    (vreq[r].pc = "done" /\ vreq[r].auth <= 0) => vreq[r].outcome = "unauthorized"

\* C20: GET /client/auth never changes an entry that is already in pkceStorage.
C20_PutNeverOverwrites ==
  [][ \A s \in (DOMAIN pkceStorage) \cap (DOMAIN pkceStorage') :
        pkceStorage'[s] = pkceStorage[s] ]_vars

\* C21: GET /client/auth with a client_id that is not a registered application is
\* answered with an error and writes nothing to pkceStorage; a request that is answered
\* with the redirect adds exactly one entry, under the state of the redirect URL and
\* with the nonce of that URL, and leaves the other entries and tokenStorage unchanged.
Registered(queryClientId) ==
  \E a \in applications(table) :
     a.client_id = (IF queryClientId = None THEN "demo-client" ELSE queryClientId)

C21_ClientAuthFrame ==
  [][ \A c \in ClientIdInputs, ok \in BOOLEAN, st \in Randoms, n \in Randoms, v \in Randoms :
        ClientAuth(c, ok, st, n, v) =>
          LET res == ClientAuthResponse(c, ok, st, n, v) IN
          /\ tokenStorage' = tokenStorage
          /\ ~ Registered(c) => (res.status = 500 /\ pkceStorage' = pkceStorage)
          /\ res.status # 302 => pkceStorage' = pkceStorage
          /\ (Registered(c) /\ ok) => res.status = 302
          /\ res.status = 302 =>
                /\ res.state \notin DOMAIN pkceStorage
                /\ DOMAIN pkceStorage' = DOMAIN pkceStorage \cup {res.state}
                /\ pkceStorage'[res.state].nonce = res.query.nonce
                /\ \A s \in DOMAIN pkceStorage : pkceStorage'[s] = pkceStorage[s] ]_vars

C21_Witness ==
  \E s \in DOMAIN pkceStorage :
     /\ s \in DOMAIN flows
     /\ flows[s].nonce = pkceStorage[s].nonce
     /\ Cardinality(DOMAIN pkceStorage) = MaxFlows

\* C22: a refused login ends in one of three distinguishable pages and never in an
\* unhandled error: wrong login or password gives 'Invalid credentials', right
\* credentials without a role for the client give 'Access Denied', a request without a
\* live interaction gives the 400 'Session Expired' page; wrong credentials never give
\* 'Access Denied'.
ValidCredentials(login, password) == \E u \in users : u.id = login /\ u.password = password

InCooldown == \E i \in DOMAIN redirects : now - redirects[i].at < redirectCooldown

C23_OneRedirectPerCooldown ==
  /\ [](\A i, j \in DOMAIN redirects :
          i < j => redirects[j].at - redirects[i].at >= redirectCooldown)
  /\ [][ InCooldown =>
          /\ (\A c \in CallSlots :
                UserResponse(c, 401) =>
                  /\ calls'[c].pc = "done" /\ calls'[c].result.error = 401
                  /\ localToken' = localToken /\ redirects' = redirects)
          /\ (\A p \in DOMAIN promises :
                ConfigResponse(p, 401) =>
                  /\ promises'[p] = "rejected"
                  /\ localToken' = localToken /\ Len(redirects') = Len(redirects)) ]_vars

C23_Witness ==
  /\ Len(redirects) = 2
  /\ redirects[1].promise = 1 /\ redirects[1].state = "failed"
  /\ calls[0].pc = "done" /\ calls[0].result.error = 401

\* C24: when the backend request of loadConfig fails, loadConfig rejects, onConfigError
\* is called, neither the in-memory cache nor sessionStorage is written, and the
\* in-flight marker is cleared.
C24_FailedLoadRejects ==
  [][ \A p \in DOMAIN promises, status \in Statuses \ {200} :
        ConfigResponse(p, status) =>
          /\ promises'[p] = "rejected"
          /\ onConfigErrorCalls' > onConfigErrorCalls
          /\ configCache' = configCache
          /\ sessionConfig' = sessionConfig
          /\ configLoadPromise' = 0 ]_vars

\* C25: every call of initialize() eventually resolves with a result {authenticated,
\* user, error}; checked for the pages that are not left by a redirect.
C25_InitializeResolves ==
  \A c \in CallSlots :
    (calls[c].op = "initialize") ~>
       (Navigated \/ (calls[c].pc = "done" /\ calls[c].result.value \in {"true", "false"}))

\* C26: logout() removes the stored token and sets token.value and currentUser.value to
\* null, and a verifyAuth() that finds no stored token returns false without sending a
\* request.
C26_LogoutClears ==
  [][ /\ PluginLogout =>
            (localToken' = None /\ tokenRef' = None /\ currentUser' = None)
      /\ (\A c \in CallSlots :
            (localToken = None /\ VerifyAuth(c)) =>
               /\ calls'[c].pc = "done"
               /\ calls'[c].result = Result("false", None, 0)
               /\ currentUser' = None /\ tokenRef' = None
               /\ ~ isVerifyingAuth') ]_vars

C26_Witness ==
  /\ calls[1].op = "verifyAuth" /\ calls[1].result.value = "true"
  /\ calls[2].op = "verifyAuth" /\ calls[2].result.value = "false"
  /\ redirects = << >>
  /\ localToken = None /\ tokenRef = None /\ currentUser = None

\* C27: a refused login (invalid credentials or access denied) leaves the correlation
\* store unchanged and the interaction open for a retry; as long as no callback has
\* presented the state of a flow, its entry is present.
Refused == {"InvalidCredentials", "AccessDenied"}

C27_RefusedLoginKeepsEntry ==
  /\ [](\A uid \in DOMAIN interactions :
          (\A r \in Slots : cb[r].state # uid) => uid \in DOMAIN pkceStorage)
  /\ [][ \A uid \in Randoms, c \in Credentials, k \in BOOLEAN :
          (InteractionLogin(uid, c[1], c[2], k) /\ interactions'[uid].result \in Refused) =>
             /\ pkceStorage' = pkceStorage
             /\ interactions'[uid].status = "open" ]_vars

C27_Witness ==
  \E uid \in DOMAIN interactions, r \in Slots :
     /\ interactions[uid].result \in Refused
     /\ interactions[uid].prompt = "login"
     /\ cb[r].state = uid /\ cb[r].found

\* C28: the role metadata of a grant is a map per client: an interaction for client c
\* writes resourceServers[c] only; the entry of every other client, in every grant, is
\* neither added, removed nor changed.
FinishedFor(c) ==
  \E uid \in DOMAIN interactions :
     /\ interactions[uid].status = "open"
     /\ interactions'[uid].status = "finished"
     /\ interactions[uid].params.client_id = c

RoleOf(gs, g, c) ==
  IF g \in DOMAIN gs /\ c \in DOMAIN gs[g].resourceServers
  THEN gs[g].resourceServers[c] ELSE None

C28_RolePerClient ==
  [][ \A g \in (DOMAIN grants) \cup (DOMAIN grants') :
        \A c \in {"demo-client", "app2", "admin-ui", "filebump-admin"} :
           RoleOf(grants', g, c) # RoleOf(grants, g, c) => FinishedFor(c) ]_vars

C28_Witness ==
  \E g \in DOMAIN grants :
     /\ Cardinality(DOMAIN grants[g].resourceServers) = 2
     /\ \E c1, c2 \in DOMAIN grants[g].resourceServers :
           grants[g].resourceServers[c1] # grants[g].resourceServers[c2]

\* C29: there is at most one grant for a pair of account and client, and a login never
\* removes a scope or a claim from a grant.
C29_OneGrantPerPair ==
  /\ [](\A g1, g2 \in DOMAIN grants :
          (grants[g1].accountId = grants[g2].accountId
             /\ grants[g1].clientId = grants[g2].clientId) => g1 = g2)
  /\ [][ \A g \in DOMAIN grants :
          /\ g \in DOMAIN grants'
          /\ grants[g].scopes \subseteq grants'[g].scopes
          /\ grants[g].claims \subseteq grants'[g].claims ]_vars

\* C30: when the claims of an ID token are materialized, the role is the one the grant
\* records for the requesting client if it records one, otherwise
\* userAppRoles[accountId][clientId], otherwise null.
RecordedRole(code) ==
  LET c == codes[code] IN
  IF c.grantId \in DOMAIN grants /\ c.clientId \in DOMAIN grants[c.grantId].resourceServers
  THEN grants[c.grantId].resourceServers[c.clientId] ELSE NULL

C30_GrantRoleFirst ==
  [][ \A r \in Slots :
        (cb[r].pc = "exchange" /\ cb'[r].outcome = "Completed") =>
           cb'[r].token.role =
              IF RecordedRole(cb[r].code) # NULL THEN RecordedRole(cb[r].code)
              ELSE userAppRoles(table, codes[cb[r].code].accountId,
                                codes[cb[r].code].clientId) ]_vars

\* C31: validateJWT attaches req.user = {sub, name, email, role} and req.token and calls
\* next() only after the header, structure, issuer, audience, signature and nonce stages
\* have all passed, the attached values are those of the verified payload, and on every
\* rejection req.user and req.token stay unset and next() is not called.
C31_NextOnlyAfterAllStages ==
  /\ [](\A r \in VSlots :
         /\ vreq[r].outcome = "next" =>
              ( /\ vreq[r].pc = "done"
                /\ vreq[r].auth >= 1
                /\ Tokens[vreq[r].auth].segs = 3
                /\ Tokens[vreq[r].auth].header = "h"
                /\ Tokens[vreq[r].auth].payload = "json"
                /\ Tokens[vreq[r].auth].iss = ISSUER
                /\ \E i \in 1 .. Len(Tokens[vreq[r].auth].aud.vals) :
                      Tokens[vreq[r].auth].aud.vals[i] = "admin-ui"
                /\ Tokens[vreq[r].auth].signature = "good"
                /\ vreq[r].verifyCalled
                /\ Tokens[vreq[r].auth].nonce.type = "string"
                /\ Tokens[vreq[r].auth].nonce.val # <<>>
                /\ vreq[r].token = vreq[r].auth
                /\ vreq[r].user = [sub |-> Tokens[vreq[r].auth].sub[1],
                                   name |-> Tokens[vreq[r].auth].name,
                                   email |-> Tokens[vreq[r].auth].email,
                                   role |-> Tokens[vreq[r].auth].role] )
         /\ vreq[r].outcome # "next" => (vreq[r].user = NoUser /\ vreq[r].token = 0))
  /\ [][\A r \in VSlots :
          (vreq[r].outcome # "next" /\ vreq'[r].outcome = "next")
          => ( /\ vreq[r].pc = "verify"
               /\ Tokens[vreq[r].auth].exp > now
               /\ jwks # None )]_vars

C31_Witness ==
  \E r1, r2 \in VSlots :
    /\ vreq[r1].outcome = "next" /\ vreq[r1].user.email = <<"user2", "@example.com">>
    /\ vreq[r2].outcome = "invalid_nonce" /\ vreq[r2].user = NoUser

\* C32: every entry recorded in usedTokens is eventually removed, by its timer or by the
\* periodic sweep; no entry stays in the map longer than TOKEN_TTL plus one sweep
\* interval; whichever of the two removes an entry, the entry has lived TOKEN_TTL and
\* nothing is left for the other to do (its timer is no longer pending).
C32_EntriesExpire ==
  /\ \A t \in GuardTokens :
       (KeyOf(t) \in DOMAIN usedTokens) ~> (KeyOf(t) \notin DOMAIN usedTokens)
  /\ [](\A k \in DOMAIN usedTokens :
          now - usedTokens[k].timestamp <= TOKEN_TTL + SWEEP_INTERVAL)
  /\ [][\A k \in DOMAIN usedTokens :
          k \notin DOMAIN usedTokens'
          => /\ now - usedTokens[k].timestamp >= TOKEN_TTL
             /\ usedTokens[k].timeout \notin DOMAIN timers'
             /\ \A other \in DOMAIN usedTokens' : usedTokens'[other] = usedTokens[other]]_vars

C32_Witness ==
  /\ acceptedTokens # {}
  /\ usedTokens = Empty
  /\ timers = Empty
  /\ now > TOKEN_TTL

\* C33: each key of usedTokens has exactly one pending deletion timer and every pending
\* timer belongs to the entry stored under its key; validating a token whose entry is
\* expired cancels the old timer and re-records the entry with the current time and one
\* fresh timer, validating a live entry creates no timer, and a timer that fires deletes
\* the entry it was scheduled for, never one recorded later.
C33_OneTimerPerEntry ==
  /\ [](/\ \A k \in DOMAIN usedTokens :
            /\ usedTokens[k].timeout \in DOMAIN timers
            /\ timers[usedTokens[k].timeout].key = k
            /\ timers[usedTokens[k].timeout].due = usedTokens[k].timestamp + TOKEN_TTL
        /\ \A id \in DOMAIN timers :
            /\ timers[id].key \in DOMAIN usedTokens
            /\ usedTokens[timers[id].key].timeout = id
        /\ Cardinality(DOMAIN timers) = Cardinality(DOMAIN usedTokens))
  /\ [][\A r \in VSlots :
          (vreq[r].pc = "verify" /\ vreq'[r].outcome = "next"
             /\ KeyOf(vreq[r].auth) \in DOMAIN usedTokens)
          => IF now - usedTokens[KeyOf(vreq[r].auth)].timestamp < TOKEN_TTL
             THEN usedTokens' = usedTokens /\ timers' = timers
             ELSE /\ usedTokens'[KeyOf(vreq[r].auth)].timestamp = now
                  /\ usedTokens'[KeyOf(vreq[r].auth)].timeout \notin DOMAIN timers
                  /\ usedTokens[KeyOf(vreq[r].auth)].timeout \notin DOMAIN timers'
                  /\ Cardinality(DOMAIN timers') = Cardinality(DOMAIN timers)]_vars
  /\ [][\A id \in DOMAIN timers :
          (id \notin DOMAIN timers' /\ timers[id].key \in DOMAIN usedTokens
             /\ timers[id].key \notin DOMAIN usedTokens')
          => /\ usedTokens[timers[id].key].timeout = id
             /\ usedTokens[timers[id].key].timestamp <= timers[id].due - TOKEN_TTL]_vars

C33_Witness ==
  \E k \in DOMAIN usedTokens :
    /\ usedTokens[k].timestamp >= TOKEN_TTL
    /\ usedTokens[k].timeout > 1
    /\ DOMAIN timers = {usedTokens[k].timeout}
    /\ \E r1, r2 \in VSlots :
         /\ r1 # r2
         /\ vreq[r1].outcome = "next" /\ vreq[r2].outcome = "next"
         /\ vreq[r1].auth = vreq[r2].auth
         /\ KeyOf(vreq[r1].auth) = k

C37_RejectionLeavesGuard ==
  /\ [][\A r \in VSlots :
          (vreq'[r] # vreq[r] /\ vreq'[r].outcome # "next")
          => UNCHANGED <<usedTokens, timers, nextTimer>>]_vars
  /\ [][\A k \in DOMAIN usedTokens' :
          (k \notin DOMAIN usedTokens \/ usedTokens'[k] # usedTokens[k])
          => \E r \in VSlots :
               /\ vreq[r].pc = "verify"
               /\ vreq'[r].outcome = "next"
               /\ KeyOf(vreq[r].auth) = k
               /\ Tokens[vreq[r].auth].signature = "good"
               /\ Tokens[vreq[r].auth].header = "h"
               /\ Tokens[vreq[r].auth].nonce.type = "string"
               /\ Tokens[vreq[r].auth].nonce.val # <<>>]_vars

C37_Witness ==
  /\ usedTokens # Empty
  /\ \E r1, r2 \in VSlots :
       /\ vreq[r1].outcome = "next"
       /\ vreq[r2].outcome = "invalid_nonce"
       /\ vreq[r2].verifyCalled
       /\ KeyOf(vreq[r2].auth) \notin DOMAIN usedTokens

\* C35: every grant saved by the login branch of the interaction handler belongs to the
\* user whose credentials were just verified and to the requesting client
\* (params.client_id), also when it was loaded through the grant id of the session.
C35_LoginGrantOwner ==
  [][\A uid \in DOMAIN interactions :
       ( /\ interactions[uid].status = "open"
         /\ interactions[uid].prompt = "login"
         /\ interactions'[uid].status = "finished" )
       => /\ codes'[uid].grantId \in DOMAIN grants'
          /\ grants'[codes'[uid].grantId].accountId = codes'[uid].accountId
          /\ grants'[codes'[uid].grantId].clientId = interactions[uid].params.client_id]_vars

\* C36: a config manager has at most one backend configuration request in flight; the
\* completion of a request that is no longer the one marked in configLoadPromise
\* neither clears the marker of a newer request nor writes its result into the cache.
C36_OneConfigRequest ==
  /\ [](Cardinality({ p \in DOMAIN promises : promises[p] = "pending" }) <= 1)
  /\ [][\A p \in DOMAIN promises :
          ( /\ promises[p] = "pending"
            /\ promises'[p] # "pending"
            /\ configLoadPromise # p )
          => /\ configLoadPromise' = configLoadPromise
             /\ configCache' = configCache
             /\ sessionConfig' = sessionConfig]_vars

\* C38: the parameters of a flow are bound when it begins: the correlation entry holds
\* the client, verifier and nonce GET /client/auth sent to the authority and the
\* redirect_url registered for that client; /client/callback exchanges the code with the
\* client, codeVerifier and nonce of the entry of the presented state and redirects to
\* the redirect_url registered for the entry's clientId, whatever else the query holds.
C38_FlowParametersBound ==
  /\ [](\A st \in DOMAIN pkceStorage :
          /\ flows[st].client_id = pkceStorage[st].clientId
          /\ flows[st].nonce = pkceStorage[st].nonce
          /\ flows[st].code_challenge = codeChallenge(pkceStorage[st].codeVerifier)
          /\ \E a \in applications(table) :
                /\ a.client_id = pkceStorage[st].clientId
                /\ a.redirect_url = pkceStorage[st].redirectUrl)
  /\ [][\A r \in Slots :
          /\ (cb[r].pc = "idle" /\ cb'[r].pc = "getClient")
               => cb'[r].pkceData = pkceStorage[cb'[r].state]
          /\ cb[r].pc \in {"getClient", "exchange"}
               => (cb'[r].pkceData = cb[r].pkceData /\ cb'[r].state = cb[r].state)
          /\ (cb[r].pc = "exchange" /\ cb'[r].outcome = "Completed")
               => /\ codes[cb[r].code].clientId = cb[r].pkceData.clientId
                  /\ codes[cb[r].code].code_challenge
                        = codeChallenge(cb[r].pkceData.codeVerifier)
                  /\ cb'[r].token.nonce = cb[r].pkceData.nonce
                  /\ cb'[r].token.aud = cb[r].pkceData.clientId
                  /\ \E a \in applications(table) :
                        /\ a.client_id = cb[r].pkceData.clientId
                        /\ a.redirect_url = cb'[r].location]_vars

C38_Witness ==
  \E r \in Slots :
    /\ cb[r].outcome = "Completed"
    /\ cb[r].query = "redirect_uri=http://evil.example/"
    /\ cb[r].location = "http://localhost:3002/"
    /\ cb[r].token.aud = "demo-client"

====
